---- MODULE Spec2Model ----
(***************************************************************************)
(* Model of trace-tally's task tree (src/src/task.rs) and of the           *)
(* TaskRenderer that owns it (src/src/writer.rs): the store is an arena    *)
(* keyed by TaskId, mutated one Action at a time by TaskStore::apply and   *)
(* pruned at root level by TaskRenderer::render.                           *)
(***************************************************************************)
EXTENDS Integers, Sequences, FiniteSets, TLC

\* ------------------------------------------------------------------ bounds
\* Largest raw TaskId a producer uses: real identities are 1..MaxId.
MaxId == 2
\* Identities of the store whose child sets are followed: 1..MaxSiblings.
MaxSiblings == 3
\* Cap on the number of events buffered in the whole store at once.
MaxTotalEvents == 2
\* SpecRolling: events attributed to the tasks of the store, all together
MaxPushes == 4
\* SpecRolling: the largest of the small retention bounds a store is built with
SmallMaxEvents == 2
\* SpecBurst: root-level events the producer sends between two renders
MaxBurst == 66
\* SpecScreen: lines the flush passes leave on the terminal, all together
MaxPermLines == 2
\* SpecLoop: actions the producers send into the channel, all together
MaxSent == 3
\* SpecIds: width in bits of the identity counter (usize in the source)
IdBits == 2
\* SpecIds: threads that create spans through one layer
NumThreads == 2
\* SpecHandler: actions the layer hands to the channel handler, all together
MaxHandled == 4
\* SpecInline: calls of InlineHandler::handle, all threads together
MaxInline == 3
\* SpecWriter: bytes a callback hands to one write! or writeln!
MaxBuf == 3
\* SpecWriter: calls of FrameWriter::write since the counter was reset
MaxWrites == 4

\* ------------------------------------------------------- program constants
\* TaskId::ROOT = TaskId(0)
ROOT == 0
\* TaskStore::new() == with_max_events(64)
DefaultMaxEvents == 64
\* The default Renderer::render_task shows the last 3 buffered events.
EventCap == 3

\* Option::None for an Option<TaskId>.
None == -1
\* Option::None for Task::data (the root carries no payload).
NoData == "none"

TaskIds == 1 .. MaxId
Ids == {ROOT} \cup TaskIds
\* Identities an action may refer to: the root, the real identities and one
\* identity that no TaskStart ever introduces.
RefIds == Ids \cup {MaxId + 1}
OptIds == {None} \cup RefIds
TaskData == {"a"}
EventData == {1, 2}

\* tasks       : TaskStore::tasks, the arena TaskId -> Task
\* max_events  : TaskStore::max_events
\* frame_lines : TaskRenderer::frame_lines, the erasable-line count
\* last        : the last call made on the TaskRenderer, its input and outcome
VARIABLES tasks, max_events, frame_lines, last, hist, screen, perm, rloop, idgen,
          handler, fwriter

vars == <<tasks, max_events, frame_lines, last, hist, screen, perm, rloop, idgen,
          handler, fwriter>>

\* The TaskRenderer's own state, and what an observer keeps beside it: the
\* events attributed to each task so far (hist), the lines on the terminal
\* the sink writes to (screen) and the lines of every flush pass (perm).
renderer == <<tasks, max_events, frame_lines, last>>
observer == <<hist, screen, perm>>

\* The parts of the crate around the TaskRenderer: a RenderLoop with its
\* action source (rloop), the IdGenerator of a tracing layer (idgen), a
\* ChannelHandler or InlineHandler (handler) and a FrameWriter over a sink
\* seen byte by byte (fwriter).  A specification that does not run one of
\* them leaves it absent.
outside == <<rloop, idgen, handler, fwriter>>
Absent == <<>>

\* ----------------------------------------------------------------- helpers
\* IndexSet::contains
Contains(seq, x) == \E i \in 1 .. Len(seq) : seq[i] = x

\* Variant of IndexSetInsert that puts a new element first.
IndexSetInsert_front(seq, x) == IF Contains(seq, x) THEN seq ELSE <<x>> \o seq

\* IndexSet::insert: appended unless already present.
IndexSetInsert(seq, x) == IF Contains(seq, x) THEN seq ELSE Append(seq, x)

\* Variant of ShiftRemove that fills the hole with the last element, as
\* IndexSet::swap_remove does.
ShiftRemove_swap(seq, x) ==
    IF ~Contains(seq, x) THEN seq
    ELSE LET i == CHOOSE j \in 1 .. Len(seq) : seq[j] = x
             n == Len(seq)
         IN  IF i = n THEN SubSeq(seq, 1, n - 1)
             ELSE [j \in 1 .. (n - 1) |-> IF j = i THEN seq[n] ELSE seq[j]]

\* IndexSet::shift_remove: survivors keep their order.
ShiftRemove(seq, x) == SelectSeq(seq, LAMBDA y : y # x)

\* IndexSet::get_index_of, zero-based; None when absent.
IndexOf(seq, x) ==
    IF Contains(seq, x)
    THEN (CHOOSE i \in 1 .. Len(seq) : seq[i] = x) - 1
    ELSE None

\* IndexMap::shift_remove on the arena.
MapRemove(s, id) == [k \in (DOMAIN s) \ {id} |-> s[k]]

\* IndexMap::insert on the arena (overwrites an existing key).
MapInsert(s, id, task) == [k \in (DOMAIN s) \cup {id} |-> IF k = id THEN task ELSE s[k]]

\* Task::new
NewTask(depth, parent, data) ==
    [depth     |-> depth,
     completed |-> FALSE,
     cancelled |-> FALSE,
     parent    |-> parent,
     data      |-> data,
     events    |-> <<>>,
     subtasks  |-> <<>>]

\* TaskStore::with_max_events: the arena holding only the virtual root.
with_max_events == (ROOT :> NewTask(0, None, NoData))

\* TaskStore::get_task_mut: the key the lookup uses (None resolves to ROOT) ...
get_task_mut_key(id) == IF id = None THEN ROOT ELSE id

\* ... and whether the lookup finds a task.
get_task_mut_found(s, id) == get_task_mut_key(id) \in DOMAIN s

\* Variant of TrimFront that drops the newest events instead of the oldest.
TrimFront_drops_newest(events, bound) ==
    IF Len(events) > bound THEN SubSeq(events, 1, bound) ELSE events

\* VecDeque::push_back followed by the pop_front loop of Action::Event.
RECURSIVE TrimFront(_, _)
TrimFront(events, bound) ==
    IF Len(events) > bound THEN TrimFront(Tail(events), bound) ELSE events

\* Variant of apply_Event that pushes at the front of the buffer.
apply_Event_push_front(s, me, parent, data) ==
    IF get_task_mut_found(s, parent)
    THEN LET k == get_task_mut_key(parent)
         IN [s EXCEPT ![k].events = TrimFront(<<data>> \o @, me)]
    ELSE s

\* --------------------------------------------------------- TaskStore::apply
\* Action::Event
apply_Event(s, me, parent, data) ==
    IF get_task_mut_found(s, parent)
    THEN LET k == get_task_mut_key(parent)
         IN [s EXCEPT ![k].events = TrimFront(Append(@, data), me)]
    ELSE s

\* Action::TaskStart: the parent the new task is attached to.
resolve_parent(s, parent) ==
    IF parent # None /\ parent \in DOMAIN s THEN parent ELSE ROOT

\* Variant of apply_TaskStart that always links the new task under ROOT.
apply_TaskStart_links_root(s, id, parent, data) ==
    LET parent_id == resolve_parent(s, parent)
        depth == s[parent_id].depth + 1
        s1 == MapInsert(s, id, NewTask(depth, parent_id, data))
    IN [s1 EXCEPT ![ROOT].subtasks = IndexSetInsert(@, id)]

\* Variant of apply_TaskStart that links the new task only when a parent
\* was given.
apply_TaskStart_no_link_without_parent(s, id, parent, data) ==
    LET parent_id == resolve_parent(s, parent)
        depth == s[parent_id].depth + 1
        s1 == MapInsert(s, id, NewTask(depth, parent_id, data))
    IN IF parent = None THEN s1
       ELSE [s1 EXCEPT ![parent_id].subtasks = IndexSetInsert(@, id)]

\* Variant of apply_TaskStart that gives every new task depth 1.
apply_TaskStart_depth_one(s, id, parent, data) ==
    LET parent_id == resolve_parent(s, parent)
        depth == s[ROOT].depth + 1
        s1 == MapInsert(s, id, NewTask(depth, parent_id, data))
    IN [s1 EXCEPT ![parent_id].subtasks = IndexSetInsert(@, id)]

\* Action::TaskStart
apply_TaskStart(s, id, parent, data) ==
    LET parent_id == resolve_parent(s, parent)
        depth == s[parent_id].depth + 1
        s1 == MapInsert(s, id, NewTask(depth, parent_id, data))
    IN [s1 EXCEPT ![parent_id].subtasks = IndexSetInsert(@, id)]

\* Variant of apply_TaskEnd that removes a childless task on the spot.
apply_TaskEnd_removes_leaf(s, id) ==
    IF get_task_mut_found(s, id)
    THEN IF id # ROOT /\ s[id].subtasks = <<>>
         THEN [MapRemove(s, id) EXCEPT ![s[id].parent].subtasks = ShiftRemove(@, id)]
         ELSE [s EXCEPT ![get_task_mut_key(id)].completed = TRUE]
    ELSE s

\* Variant of apply_TaskEnd that also drops the task's buffered events.
apply_TaskEnd_clears_events(s, id) ==
    IF get_task_mut_found(s, id)
    THEN [s EXCEPT ![get_task_mut_key(id)].completed = TRUE,
                   ![get_task_mut_key(id)].events = <<>>]
    ELSE s

\* Variant of apply_TaskEnd that marks the task cancelled as well.
apply_TaskEnd_cancels(s, id) ==
    IF get_task_mut_found(s, id)
    THEN [s EXCEPT ![get_task_mut_key(id)].completed = TRUE,
                   ![get_task_mut_key(id)].cancelled = TRUE]
    ELSE s

\* Action::TaskEnd
apply_TaskEnd(s, id) ==
    IF get_task_mut_found(s, id)
    THEN [s EXCEPT ![get_task_mut_key(id)].completed = TRUE]
    ELSE s

\* Variant of cancel_loop that never extends the queue with subtasks.
RECURSIVE cancel_loop_shallow(_, _)
cancel_loop_shallow(s, queue) ==
    IF queue = <<>> THEN s
    ELSE cancel_loop_shallow([s EXCEPT ![Head(queue)].cancelled = TRUE], Tail(queue))

\* Variant of cancel_loop that flips the flag instead of setting it.
RECURSIVE cancel_loop_toggle(_, _)
cancel_loop_toggle(s, queue) ==
    IF queue = <<>> THEN s
    ELSE LET id == Head(queue)
         IN cancel_loop_toggle([s EXCEPT ![id].cancelled = ~@],
                               Tail(queue) \o s[id].subtasks)

\* Action::CancelAll: the while-let loop over the queue.
RECURSIVE cancel_loop(_, _)
cancel_loop(s, queue) ==
    IF queue = <<>> THEN s
    ELSE LET id == Head(queue)
         IN cancel_loop([s EXCEPT ![id].cancelled = TRUE],
                        Tail(queue) \o s[id].subtasks)

\* Action::CancelAll
apply_CancelAll(s) == cancel_loop(s, s[ROOT].subtasks)

\* TaskStore::apply
apply(s, me, action) ==
    CASE action.type = "Event"     -> apply_Event(s, me, action.parent, action.data)
      [] action.type = "TaskStart" -> apply_TaskStart(s, action.id, action.parent, action.data)
      [] action.type = "TaskEnd"   -> apply_TaskEnd(s, action.id)
      [] action.type = "CancelAll" -> apply_CancelAll(s)

\* Variant of remove that leaves the removed task's subtasks in the store.
remove_shallow(s, id) ==
    IF id \notin DOMAIN s THEN s
    ELSE LET task == s[id]
             s1 == MapRemove(s, id)
         IN IF get_task_mut_found(s1, task.parent)
            THEN [s1 EXCEPT ![get_task_mut_key(task.parent)].subtasks =
                                ShiftRemove(@, id)]
            ELSE s1

\* Variant of remove that does not detach the task from its parent.
RECURSIVE remove_no_detach(_, _)
remove_no_detach(s, id) ==
    IF id \notin DOMAIN s THEN s
    ELSE LET task == s[id]
             s1 == MapRemove(s, id)
             Rec[i \in 0 .. Len(task.subtasks)] ==
                 IF i = 0 THEN s1 ELSE remove_no_detach(Rec[i - 1], task.subtasks[i])
         IN Rec[Len(task.subtasks)]

\* TaskStore::remove
RECURSIVE remove(_, _)
RECURSIVE remove_all(_, _)
remove(s, id) ==
    IF id \notin DOMAIN s THEN s
    ELSE LET task == s[id]
             s1 == MapRemove(s, id)
             s2 == IF get_task_mut_found(s1, task.parent)
                   THEN [s1 EXCEPT ![get_task_mut_key(task.parent)].subtasks =
                                       ShiftRemove(@, id)]
                   ELSE s1
         IN remove_all(s2, task.subtasks)

\* The `for subtask in task.subtasks` loop of remove, and the
\* `for id in completed` loop of flush_root.
remove_all(s, ids) ==
    IF ids = <<>> THEN s ELSE remove_all(remove(s, Head(ids)), Tail(ids))

\* ------------------------------------------------------------- rendering
\* One renderer callback that writes one line: render_task_line for a task,
\* or render_event_line for the event `data` buffered on `task`.
TaskLine(id) == [kind |-> "task", task |-> id, data |-> 0]
EventLine(id, data) == [kind |-> "event", task |-> id, data |-> data]

\* Variant of LastEvents that shows the oldest EventCap events.
LastEvents_takes_oldest(events) ==
    IF Len(events) > EventCap THEN SubSeq(events, 1, EventCap) ELSE events

\* task.events().rev().take(3).rev(): the most recent EventCap events,
\* oldest of those first.
LastEvents(events) ==
    IF Len(events) > EventCap
    THEN SubSeq(events, Len(events) - EventCap + 1, Len(events))
    ELSE events

\* Renderer::render_task (default body): the callbacks it makes, in order.
RECURSIVE render_task(_, _)
RECURSIVE render_subtasks(_, _)
render_task(s, id) ==
    LET task == s[id]
        evs == IF ~task.completed THEN LastEvents(task.events) ELSE <<>>
    IN  <<TaskLine(id)>>
        \o [i \in 1 .. Len(evs) |-> EventLine(id, evs[i])]
        \o render_subtasks(s, task.subtasks)

\* The `for subtask in task.subtasks()` loop of render_task, also the
\* loop over a queue of top-level tasks.
render_subtasks(s, ids) ==
    IF ids = <<>> THEN <<>>
    ELSE render_task(s, Head(ids)) \o render_subtasks(s, Tail(ids))

\* flush_root: the root-level events it renders.
flush_root_events(s) ==
    [i \in 1 .. Len(s[ROOT].events) |-> EventLine(ROOT, s[ROOT].events[i])]

\* Variant of flush_root_completed that overlooks cancelled tasks.
flush_root_completed_ignores_cancelled(s) ==
    SelectSeq(s[ROOT].subtasks, LAMBDA t : s[t].completed)

\* flush_root: the `completed` queue (finished children of ROOT, in order).
flush_root_completed(s) ==
    SelectSeq(s[ROOT].subtasks, LAMBDA t : s[t].completed \/ s[t].cancelled)

\* flush_root: the `active` queue it returns.
flush_root_active(s) ==
    SelectSeq(s[ROOT].subtasks, LAMBDA t : ~(s[t].completed \/ s[t].cancelled))

\* Variant of clear_events that also drops the finished top-level tasks.
clear_events_drops_finished(s) ==
    remove_all([s EXCEPT ![ROOT].events = <<>>], flush_root_completed(s))

\* Task::clear_events on the root.
clear_events(s) == [s EXCEPT ![ROOT].events = <<>>]

\* flush_root: the store it leaves when every callback succeeds.
flush_root(s) == remove_all(clear_events(s), flush_root_completed(s))

\* render: the active pass, over the queue flush_root returned.
render_active(s, queue) ==
    render_subtasks(s, SelectSeq(queue, LAMBDA t : s[t].data # NoData))

\* One call TaskRenderer::render makes, as the Renderer and the store see
\* it: a hook, clear_frame, a callback for a root-level event (arg: its
\* index) or for a top-level task (arg: its identity), TaskStore::remove,
\* or the final flush of the sink; ok is FALSE when the call returned Err
\* (or panicked).
Cb(cb, arg, ok) == [cb |-> cb, arg |-> arg, ok |-> ok]

\* The `for i in 0..events().len()` loop of flush_root when the sink lets k
\* lines through: the calls of render_event_line, the last one failing if
\* the sink fails before the loop is over.
render_event_line_calls(s, k) ==
    [i \in 1 .. (IF k < Len(s[ROOT].events) THEN k + 1 ELSE Len(s[ROOT].events)) |->
        Cb("render_event_line", i - 1, i <= k)]

\* Variant of render_task_calls that visits the queue from its back.
render_task_calls_reversed(s, ids, k) ==
    [i \in 1 .. Len(ids) |-> Cb("render_task", ids[Len(ids) + 1 - i], TRUE)]

\* The calls of render_task a loop over `ids` makes when the sink lets k
\* lines through: a call succeeds when all of its lines do, and the first
\* call that fails ends the loop.
RECURSIVE render_task_calls(_, _, _)
render_task_calls(s, ids, k) ==
    IF ids = <<>> THEN <<>>
    ELSE LET n == Len(render_task(s, Head(ids)))
         IN  IF k >= n
             THEN <<Cb("render_task", Head(ids), TRUE)>>
                  \o render_task_calls(s, Tail(ids), k - n)
             ELSE <<Cb("render_task", Head(ids), FALSE)>>

\* The `for id in completed { self.tasks.remove(id) }` loop of flush_root.
remove_calls(ids) == [i \in 1 .. Len(ids) |-> Cb("remove", ids[i], TRUE)]

\* ------------------------------------------------------------ TaskView
\* A view is the store and an identity; an absent Option is None.
\* TaskView::parent: the parent field of the task, as a view.
TaskView_parent(s, id) == s[id].parent

\* TaskView::subtasks: views of the child set's members, in its order.
TaskView_subtasks(s, id) == s[id].subtasks

\* TaskView::index: position in the parent's child set; None stands for the
\* panic of either unwrap (no parent, or not listed by the parent).
TaskView_index(s, id) ==
    IF s[id].parent = None \/ s[id].parent \notin DOMAIN s
    THEN None
    ELSE IndexOf(s[s[id].parent].subtasks, id)

\* ----------------------------------------------------------- the machine
\* What one render call sent to the sink: the clear sequences (each the
\* line count N of CR ESC[{N}A ESC[2K ESC[J), the lines of the flush pass
\* and the lines of the active pass.
Output(clear, flush, active) == [clear |-> clear, flush |-> flush, active |-> active]
NoOutput == Output(<<>>, <<>>, <<>>)

\* A call on the TaskRenderer: the method, its input and its outcome.
Call(op, id, parent, data, result) ==
    [op |-> op, id |-> id, parent |-> parent, data |-> data, result |-> result,
     flushed |-> <<>>, removed |-> {}, out |-> NoOutput, trace |-> <<>>]

\* A call of render: the finished root-level tasks it removed (in order),
\* every identity that left the store with them, and what the sink received.
RenderCall(result, before, after, out, trace) ==
    [op |-> "Render", id |-> None, parent |-> None, data |-> 0, result |-> result,
     flushed |-> SelectSeq(flush_root_completed(before), LAMBDA t : t \notin DOMAIN after),
     removed |-> (DOMAIN before) \ (DOMAIN after),
     out |-> out,
     trace |-> trace]

RECURSIVE SumLen(_, _)
SumLen(s, ids) ==
    IF ids = {} THEN 0
    ELSE LET k == CHOOSE x \in ids : TRUE
         IN Len(s[k].events) + SumLen(s, ids \ {k})

\* Number of events buffered in the whole store.
TotalEvents(s) == SumLen(s, DOMAIN s)

\* A panic ends the thread that owns the TaskRenderer.
Alive == last.result # "panic"

\* TaskRenderer::new / TaskStore::with_max_events
Init ==
    /\ max_events = DefaultMaxEvents
    /\ tasks = with_max_events
    /\ frame_lines = 0
    /\ last = Call("new", None, None, 0, "ok")
    /\ hist = <<>>
    /\ screen = <<>>
    /\ perm = <<>>
    /\ rloop = Absent /\ idgen = Absent /\ handler = Absent /\ fwriter = Absent

\* TaskRenderer::update(Action::TaskStart), for an id that is fresh
UpdateTaskStart(id, parent, data) ==
    /\ Alive
    /\ id \notin DOMAIN tasks
    /\ tasks' = apply(tasks, max_events,
                      [type |-> "TaskStart", id |-> id, parent |-> parent, data |-> data])
    /\ last' = Call("TaskStart", id, parent, 0, "ok")
    /\ UNCHANGED <<max_events, frame_lines>>

\* TaskRenderer::update(Action::Event)
UpdateEvent(parent, data) ==
    /\ Alive
    /\ tasks' = apply(tasks, max_events,
                      [type |-> "Event", parent |-> parent, data |-> data])
    /\ last' = Call("Event", None, parent, data, "ok")
    /\ UNCHANGED <<max_events, frame_lines>>

\* TaskRenderer::update(Action::TaskEnd)
UpdateTaskEnd(id) ==
    /\ Alive
    /\ tasks' = apply(tasks, max_events, [type |-> "TaskEnd", id |-> id])
    /\ last' = Call("TaskEnd", id, None, 0, "ok")
    /\ UNCHANGED <<max_events, frame_lines>>

\* TaskRenderer::update(Action::CancelAll)
UpdateCancelAll ==
    /\ Alive
    /\ tasks' = apply(tasks, max_events, [type |-> "CancelAll"])
    /\ last' = Call("CancelAll", None, None, 0, "ok")
    /\ UNCHANGED <<max_events, frame_lines>>

\* Where the output sink can fail within one render call.
FailPoints ==
    {"none", "clear_write", "clear_flush", "root_event",
     "flush_task", "active_task", "final_flush"}

\* Variant of clear_frame that writes a clear sequence for an empty frame too.
clear_frame_always(lines_drawn) == <<lines_drawn>>

\* FrameWriter::clear_frame: the clear sequences it writes for a previous
\* frame of `lines_drawn` lines.
clear_frame(lines_drawn) == IF lines_drawn > 0 THEN <<lines_drawn>> ELSE <<>>

\* Variant of counted_lines that keeps counting where the flush pass stopped.
counted_lines_with_flush(flush, active) == Len(flush) + Len(active)

\* FrameWriter::frame_lines of the second FrameWriter of render, which
\* starts at 0 after the flush pass: the line breaks of the active pass.
counted_lines(flush, active) == Len(active)

\* The first k elements of a sequence.
Prefix(seq, k) == SubSeq(seq, 1, k)

\* TaskRenderer::render, the sink failing at `fail` (or not at all) after k
\* callbacks of the failing pass went through
Render(fail, k) ==
    LET flushed == flush_root(tasks)
        clear == clear_frame(frame_lines)
        events == flush_root_events(tasks)
        completed == flush_root_completed(tasks)
        done == render_subtasks(tasks, completed)
        queue == SelectSeq(flush_root_active(tasks),
                           LAMBDA t : flushed[t].data # NoData)
        active == render_active(flushed, flush_root_active(tasks))
        \* the calls of a render that gets through each stage
        started == <<Cb("on_render_start", None, TRUE)>>
        cleared == started \o <<Cb("clear_frame", frame_lines, TRUE)>>
        evented == cleared \o render_event_line_calls(tasks, Len(events))
        pruned == evented \o render_task_calls(tasks, completed, Len(done))
                     \o remove_calls(completed)
        drawn == pruned \o render_task_calls(flushed, queue, Len(active))
    IN
    /\ Alive
    /\ CASE fail = "clear_write" ->
              \* clear_frame unwraps the result of write!
              /\ frame_lines > 0 /\ k = 0
              /\ UNCHANGED <<tasks, frame_lines>>
              /\ last' = RenderCall("panic", tasks, tasks, NoOutput,
                            started \o <<Cb("clear_frame", frame_lines, FALSE)>>)
         [] fail = "clear_flush" ->
              /\ frame_lines > 0 /\ k = 0
              /\ UNCHANGED <<tasks, frame_lines>>
              /\ last' = RenderCall("err", tasks, tasks, Output(clear, <<>>, <<>>),
                            started \o <<Cb("clear_frame", frame_lines, FALSE)>>)
         [] fail = "root_event" ->
              /\ k < Len(events)
              /\ UNCHANGED <<tasks, frame_lines>>
              /\ last' = RenderCall("err", tasks, tasks,
                                    Output(clear, Prefix(events, k), <<>>),
                                    cleared \o render_event_line_calls(tasks, k))
         [] fail = "flush_task" ->
              /\ k < Len(done)
              /\ tasks' = clear_events(tasks)
              /\ UNCHANGED frame_lines
              /\ last' = RenderCall("err", tasks, tasks,
                                    Output(clear, events \o Prefix(done, k), <<>>),
                                    evented \o render_task_calls(tasks, completed, k))
         [] fail = "active_task" ->
              /\ k < Len(active)
              /\ tasks' = flushed
              /\ UNCHANGED frame_lines
              /\ last' = RenderCall("err", tasks, flushed,
                                    Output(clear, events \o done, Prefix(active, k)),
                                    pruned \o render_task_calls(flushed, queue, k))
         [] fail = "final_flush" ->
              /\ k = 0
              /\ tasks' = flushed
              /\ frame_lines' = counted_lines(events \o done, active)
              /\ last' = RenderCall("err", tasks, flushed,
                                    Output(clear, events \o done, active),
                                    drawn \o <<Cb("flush", None, FALSE)>>)
         [] fail = "none" ->
              /\ k = 0
              /\ tasks' = flushed
              /\ frame_lines' = counted_lines(events \o done, active)
              /\ last' = RenderCall("ok", tasks, flushed,
                                    Output(clear, events \o done, active),
                                    drawn \o <<Cb("flush", None, TRUE),
                                               Cb("on_render_end", None, TRUE)>>)
    /\ UNCHANGED max_events

\* Most callbacks one render call can make within the bounds: a line per
\* task and per buffered event.
MaxCallbacks == MaxId + MaxTotalEvents

\* The producer stops sending events when the buffers of the store would
\* hold more than MaxTotalEvents.
EventFits(parent, data) ==
    TotalEvents(apply(tasks, max_events,
                      [type |-> "Event", parent |-> parent, data |-> data]))
        <= MaxTotalEvents

\* Nobody observes the renderer in Spec.
Next ==
    \/ \E id \in TaskIds, parent \in OptIds, data \in TaskData :
          UpdateTaskStart(id, parent, data) /\ UNCHANGED <<observer, outside>>
    \/ \E parent \in OptIds, data \in EventData :
          /\ EventFits(parent, data)
          /\ UpdateEvent(parent, data) /\ UNCHANGED <<observer, outside>>
    \/ \E id \in RefIds : UpdateTaskEnd(id) /\ UNCHANGED <<observer, outside>>
    \/ UpdateCancelAll /\ UNCHANGED <<observer, outside>>
    \/ \E fail \in FailPoints, k \in 0 .. MaxCallbacks :
          Render(fail, k) /\ UNCHANGED <<observer, outside>>

Spec == Init /\ [][Next]_vars

\* ---------------------------------------------------- SpecRolling: retention
\* A store built by TaskStore::with_max_events(k), k small or the default,
\* behind a sink that never fails; the observer keeps, for every task of the
\* store, the events attributed to it (for ROOT: since its buffer was last
\* cleared).
RollBounds == (0 .. SmallMaxEvents) \cup {DefaultMaxEvents}

RollInit ==
    /\ max_events \in RollBounds
    /\ tasks = with_max_events
    /\ frame_lines = 0
    /\ last = Call("new", None, None, 0, "ok")
    /\ hist = (ROOT :> <<>>)
    /\ screen = <<>>
    /\ perm = <<>>
    /\ rloop = Absent /\ idgen = Absent /\ handler = Absent /\ fwriter = Absent

\* The events attributed so far, all tasks together.
RECURSIVE SumHist(_, _)
SumHist(h, ids) ==
    IF ids = {} THEN 0
    ELSE LET t == CHOOSE x \in ids : TRUE
         IN Len(h[t]) + SumHist(h, ids \ {t})

\* Action::Event as the observer sees it: the event goes to the task the
\* lookup of get_task_mut finds, or nowhere.
hist_Event(h, s, parent, data) ==
    IF get_task_mut_found(s, parent)
    THEN [h EXCEPT ![get_task_mut_key(parent)] = Append(@, data)]
    ELSE h

\* render as the observer sees it: the tasks it removed are forgotten, and
\* ROOT starts afresh when its buffer was cleared.
hist_Render(h, s2) ==
    [t \in DOMAIN s2 |-> IF t = ROOT /\ s2[ROOT].events = <<>> THEN <<>> ELSE h[t]]

RollTaskStart(id, parent, data) ==
    /\ UpdateTaskStart(id, parent, data)
    /\ hist' = MapInsert(hist, id, <<>>)
    /\ UNCHANGED <<screen, perm, outside>>

RollEvent(parent, data) ==
    /\ SumHist(hist, DOMAIN hist) < MaxPushes
    /\ UpdateEvent(parent, data)
    /\ hist' = hist_Event(hist, tasks, parent, data)
    /\ UNCHANGED <<screen, perm, outside>>

RollTaskEnd(id) == UpdateTaskEnd(id) /\ UNCHANGED <<observer, outside>>

RollRender ==
    /\ Render("none", 0)
    /\ hist' = hist_Render(hist, tasks')
    /\ UNCHANGED <<screen, perm, outside>>

RollNext ==
    \/ \E id \in TaskIds, parent \in Ids \cup {None}, data \in TaskData :
          RollTaskStart(id, parent, data)
    \/ \E parent \in Ids \cup {None}, data \in EventData : RollEvent(parent, data)
    \/ \E id \in TaskIds : RollTaskEnd(id)
    \/ RollRender

SpecRolling == RollInit /\ [][RollNext]_vars

\* ------------------------------------------- SpecBurst: root events in bulk
\* TaskRenderer::new (the default bound of 64) behind a sink that never
\* fails, and a producer that only logs at root level: its n-th event since
\* the last render carries the number n.
BurstInit ==
    /\ max_events = DefaultMaxEvents
    /\ tasks = with_max_events
    /\ frame_lines = 0
    /\ last = Call("new", None, None, 0, "ok")
    /\ hist = (ROOT :> <<>>)
    /\ screen = <<>>
    /\ perm = <<>>
    /\ rloop = Absent /\ idgen = Absent /\ handler = Absent /\ fwriter = Absent

BurstEvent ==
    LET n == Len(hist[ROOT]) + 1
    IN /\ n <= MaxBurst
       /\ UpdateEvent(None, n)
       /\ hist' = hist_Event(hist, tasks, None, n)
       /\ UNCHANGED <<screen, perm, outside>>

BurstRender ==
    /\ Render("none", 0)
    /\ hist' = hist_Render(hist, tasks')
    /\ UNCHANGED <<screen, perm, outside>>

BurstNext == BurstEvent \/ BurstRender

SpecBurst == BurstInit /\ [][BurstNext]_vars

\* ------------------------------------------ SpecScreen: the terminal's view
\* TaskRenderer::new writing to a terminal that never fails; the observer
\* keeps the lines on the terminal (the cursor rests on an empty row below
\* them) and the lines of all flush passes.

\* The terminal interpreting CR ESC[{n}A ESC[2K ESC[J: the cursor goes up n
\* rows, stopping at the top, and everything from there on is erased.
Erase(scr, n) == IF n >= Len(scr) THEN <<>> ELSE SubSeq(scr, 1, Len(scr) - n)

RECURSIVE EraseAll(_, _)
EraseAll(scr, clears) ==
    IF clears = <<>> THEN scr
    ELSE EraseAll(Erase(scr, Head(clears)), Tail(clears))

\* The terminal after one render call's output: clear sequences first, then
\* the whole lines of the flush pass and of the active pass.
Feed(scr, out) == EraseAll(scr, out.clear) \o out.flush \o out.active

ScreenInit ==
    /\ max_events = DefaultMaxEvents
    /\ tasks = with_max_events
    /\ frame_lines = 0
    /\ last = Call("new", None, None, 0, "ok")
    /\ hist = <<>>
    /\ screen = <<>>
    /\ perm = <<>>
    /\ rloop = Absent /\ idgen = Absent /\ handler = Absent /\ fwriter = Absent

ScreenRender ==
    /\ Len(perm) + Len(flush_root_events(tasks))
          + Len(render_subtasks(tasks, flush_root_completed(tasks))) <= MaxPermLines
    /\ Render("none", 0)
    /\ screen' = Feed(screen, last'.out)
    /\ perm' = perm \o last'.out.flush
    /\ UNCHANGED <<hist, outside>>

ScreenNext ==
    \/ \E id \in TaskIds, parent \in Ids \cup {None}, data \in TaskData :
          UpdateTaskStart(id, parent, data) /\ UNCHANGED <<observer, outside>>
    \/ \E parent \in Ids \cup {None}, data \in EventData :
          /\ EventFits(parent, data)
          /\ UpdateEvent(parent, data) /\ UNCHANGED <<observer, outside>>
    \/ \E id \in TaskIds : UpdateTaskEnd(id) /\ UNCHANGED <<observer, outside>>
    \/ UpdateCancelAll /\ UNCHANGED <<observer, outside>>
    \/ ScreenRender

SpecScreen == ScreenInit /\ [][ScreenNext]_vars

\* ------------------------------------------------- SpecLoop: the RenderLoop
\* RenderLoop::new(r, writer) driven by one of run, run_until, run_async or
\* repeated tick calls, reading a std::sync::mpsc::Receiver; producer
\* threads send into the channel, drop their senders and raise the stop
\* signal at any moment.  The writer never fails.  rloop holds the loop's
\* position and locals, the channel and the stop signal; hist holds what an
\* observer notes: how many actions were sent (each is tagged with its
\* number n when sent), the actions applied, in order, the
\* number sent when the current drain_into call began and when the stop
\* signal was raised, why the loop was left, and the drain_into calls,
\* render calls and waits made after leaving it.  run, run_until and
\* run_async own the Receiver and drop it when they return, with what is
\* still buffered (hist.lost); a send after that is refused (hist.refused
\* counts them).  tick borrows the Receiver, which the caller keeps.
Modes == {"run", "run_until", "run_async", "tick"}

LoopInit ==
    /\ max_events = DefaultMaxEvents
    /\ tasks = with_max_events
    /\ frame_lines = 0
    /\ last = Call("new", None, None, 0, "ok")
    /\ screen = <<>>
    /\ perm = <<>>
    /\ idgen = Absent /\ handler = Absent /\ fwriter = Absent
    /\ \E mode \in Modes, cancel_on_close \in BOOLEAN :
          rloop = [mode |-> mode, cancel_on_close |-> cancel_on_close,
                   pc |-> "drain", alive |-> TRUE,
                   chan |-> <<>>, senders |-> TRUE, receiver |-> TRUE,
                   stop |-> FALSE]
    /\ hist = [sent |-> 0, applied |-> <<>>, drain_sent |-> 0, at_stop |-> None,
               left |-> "no", drains_after |-> 0, renders_after |-> 0,
               waits_after |-> 0, refused |-> 0, lost |-> <<>>]

\* The actions a producer may send as its n-th: a root-level event carrying
\* n, or the start of a task with the fresh identity n, at top level or
\* (from the second action on) under the identity n - 1, or the end of the
\* task n - 1.
Sendable(n) ==
    {[type |-> "Event", parent |-> None, data |-> n],
     [type |-> "TaskStart", id |-> n, parent |-> None, data |-> "a"]}
    \cup (IF n > 1
          THEN {[type |-> "TaskStart", id |-> n, parent |-> n - 1, data |-> "a"],
                [type |-> "TaskEnd", id |-> n - 1]}
          ELSE {})

\* Sender::send: the action is buffered while the Receiver exists;
\* otherwise Err(SendError(action)) and nothing is buffered.
Send(action) ==
    /\ rloop.senders
    /\ hist.sent + hist.refused < MaxSent
    /\ IF rloop.receiver
       THEN /\ rloop' = [rloop EXCEPT
                            !.chan = Append(@, [n |-> hist.sent + 1, action |-> action])]
            /\ hist' = [hist EXCEPT !.sent = @ + 1]
       ELSE /\ rloop' = rloop
            /\ hist' = [hist EXCEPT !.refused = @ + 1]
    /\ UNCHANGED <<renderer, screen, perm, idgen, handler, fwriter>>

\* The last Sender is dropped.
DropSenders ==
    /\ rloop.senders
    /\ rloop' = [rloop EXCEPT !.senders = FALSE]
    /\ UNCHANGED <<renderer, observer, idgen, handler, fwriter>>

\* The stop signal of run_until (the flag stop() reads) or of run_async (the
\* cancellation wait_fn selects on) is raised.
RaiseStop ==
    /\ rloop.mode \in {"run_until", "run_async"}
    /\ ~rloop.stop
    /\ rloop' = [rloop EXCEPT !.stop = TRUE]
    /\ hist' = [hist EXCEPT !.at_stop = hist.sent]
    /\ UNCHANGED <<renderer, screen, perm, idgen, handler, fwriter>>

\* TaskRenderer::update, whatever the action.
LoopUpdate(action) ==
    CASE action.type = "Event" -> UpdateEvent(action.parent, action.data)
      [] action.type = "TaskStart" -> UpdateTaskStart(action.id, action.parent, action.data)
      [] action.type = "TaskEnd" -> UpdateTaskEnd(action.id)
      [] action.type = "CancelAll" -> UpdateCancelAll

\* Variant of try_recv that reports Disconnected as soon as the senders are
\* gone, whatever is still buffered.
try_recv_disconnect_first(chan, senders) ==
    IF ~senders THEN "Disconnected"
    ELSE IF chan # <<>> THEN "Ok" ELSE "Empty"

\* Receiver::try_recv: the buffered head if there is one; otherwise Empty
\* while a sender exists and Disconnected once all are dropped.
try_recv(chan, senders) ==
    IF chan # <<>> THEN "Ok"
    ELSE IF senders THEN "Empty" ELSE "Disconnected"

\* Variant of recv that hands out the newest buffered action.
recv_newest(chan) ==
    [msg |-> chan[Len(chan)], rest |-> SubSeq(chan, 1, Len(chan) - 1)]

\* What try_recv takes out of a channel that is not empty, and what stays.
recv(chan) == [msg |-> Head(chan), rest |-> Tail(chan)]

\* drain_into, one turn of its loop: try_recv, then update or return.
TryRecv ==
    /\ rloop.pc = "drain"
    /\ LET got == try_recv(rloop.chan, rloop.senders)
       IN IF got = "Ok"
          THEN /\ LoopUpdate(recv(rloop.chan).msg.action)
               /\ rloop' = [rloop EXCEPT !.chan = recv(rloop.chan).rest]
               /\ hist' = [hist EXCEPT !.applied = Append(@, recv(rloop.chan).msg)]
          ELSE /\ rloop' = [rloop EXCEPT !.alive = (got = "Empty"), !.pc = "render"]
               /\ UNCHANGED <<renderer, hist>>
    /\ UNCHANGED <<screen, perm, idgen, handler, fwriter>>

\* `let _ = self.renderer.render(&mut self.writer)`, seen from the terminal.
LoopRender ==
    /\ Render("none", 0)
    /\ screen' = Feed(screen, last'.out)
    /\ perm' = perm \o last'.out.flush

\* The render of a cycle; tick returns after it.
CycleRender ==
    /\ rloop.pc = "render"
    /\ LoopRender
    /\ rloop' = [rloop EXCEPT !.pc = IF rloop.mode = "tick" THEN "idle" ELSE "check"]
    /\ UNCHANGED <<hist, idgen, handler, fwriter>>

\* run, run_until or run_async returns: `source`, which it took by value,
\* is dropped, and with it what the channel still holds.
drop_source(r) == [r EXCEPT !.pc = "done", !.receiver = FALSE, !.chan = <<>>]

\* Variant of LeaveLoop that goes round once more.
LeaveLoop_drains_again(why) ==
    /\ rloop' = [rloop EXCEPT !.pc = "drain"]
    /\ hist' = [hist EXCEPT !.left = why]

\* Leaving the loop (`break`) for the given reason.
LeaveLoop(why) ==
    /\ rloop' = IF rloop.cancel_on_close THEN [rloop EXCEPT !.pc = "cancel"]
                 ELSE drop_source(rloop)
    /\ hist' = [hist EXCEPT !.left = why,
                            !.lost = IF rloop.cancel_on_close THEN @ ELSE rloop.chan]

\* A new cycle begins: drain_into is called.
BeginDrain ==
    /\ rloop' = [rloop EXCEPT !.pc = "drain"]
    /\ hist' = [hist EXCEPT !.drain_sent = hist.sent,
                            !.drains_after = IF hist.left = "no" THEN 0 ELSE @ + 1]

\* `if !alive { break }` of run, `if !alive || stop() { break }` of
\* run_until, `if !alive { break }` of run_async; otherwise on to the sleep
\* or the wait.
Check ==
    /\ rloop.pc = "check"
    /\ IF ~rloop.alive THEN LeaveLoop("closed")
       ELSE IF rloop.mode = "run_until" /\ rloop.stop THEN LeaveLoop("stop")
       ELSE /\ rloop' = [rloop EXCEPT !.pc = IF rloop.mode = "run_async" THEN "wait" ELSE "sleep"]
            /\ UNCHANGED hist
    /\ UNCHANGED <<renderer, screen, perm, idgen, handler, fwriter>>

\* std::thread::sleep(self.interval) is over.
Sleep ==
    /\ rloop.pc = "sleep"
    /\ BeginDrain
    /\ UNCHANGED <<renderer, screen, perm, idgen, handler, fwriter>>

\* wait_fn(self.interval).await resolves: true when the interval passed,
\* false when the stop signal won.
Wait(go_on) ==
    /\ rloop.pc = "wait"
    /\ ~go_on => rloop.stop
    /\ IF go_on THEN BeginDrain ELSE LeaveLoop("stop")
    /\ UNCHANGED <<renderer, screen, perm, idgen, handler, fwriter>>

\* The caller's own loop calls tick once more.
TickAgain ==
    /\ rloop.pc = "idle"
    /\ BeginDrain
    /\ UNCHANGED <<renderer, screen, perm, idgen, handler, fwriter>>

\* Variant of CloseCancel that goes on to the closing render without
\* applying CancelAll.
CloseCancel_skips ==
    /\ rloop.pc = "cancel"
    /\ rloop' = [rloop EXCEPT !.pc = "close_render"]
    /\ UNCHANGED <<renderer, observer, idgen, handler, fwriter>>

\* `self.renderer.update(Action::CancelAll)` after the loop
CloseCancel ==
    /\ rloop.pc = "cancel"
    /\ UpdateCancelAll
    /\ rloop' = [rloop EXCEPT !.pc = "close_render"]
    /\ UNCHANGED <<observer, idgen, handler, fwriter>>

\* The render after the loop; the method returns.
CloseRender ==
    /\ rloop.pc = "close_render"
    /\ LoopRender
    /\ rloop' = drop_source(rloop)
    /\ hist' = [hist EXCEPT !.renders_after = @ + 1, !.lost = rloop.chan]
    /\ UNCHANGED <<idgen, handler, fwriter>>

\* The steps of the thread that runs the loop.
LoopStep ==
    \/ TryRecv
    \/ CycleRender
    \/ Check
    \/ Sleep
    \/ \E go_on \in BOOLEAN : Wait(go_on)
    \/ CloseCancel
    \/ CloseRender

LoopNext ==
    \/ \E action \in Sendable(hist.sent + 1) : Send(action)
    \/ DropSenders
    \/ RaiseStop
    \/ LoopStep
    \/ TickAgain

SpecLoop == LoopInit /\ [][LoopNext]_vars

\* The thread that runs the loop is scheduled: it is never stopped for ever
\* while it has a step to take (sleep and try_recv return, the writer
\* accepts what render writes).
SpecLoopFair == LoopInit /\ [][LoopNext]_vars /\ WF_vars(LoopStep)

\* --------------------------------------------- SpecIds: the IdGenerator
\* One IdGenerator shared by the threads that open spans.  The counter is an
\* AtomicUsize; here it is IdBits wide and fetch_add wraps as the hardware
\* does.  `idgen.thread[t]` is thread t's position inside next(): "idle"
\* outside a call, "fetched" between the fetch_add and the expect, and
\* "panicked" once expect has unwound the thread.  `hist.results` lists the
\* outcomes of the calls in the order of their fetch_add (the modification
\* order of the atomic): the identity the call returns, or None for a call
\* that panics.
Threads == 1 .. NumThreads

Wrap == 2 ^ IdBits

\* Calls the threads make, all together: enough to run the counter around.
MaxCalls == Wrap + 2

\* impl Default for IdGenerator: the counter starts at 1.
IdGenerator_default ==
    [counter |-> 1, thread |-> [t \in Threads |-> [pc |-> "idle", id |-> None]]]

IdsInit ==
    /\ max_events = DefaultMaxEvents
    /\ tasks = with_max_events
    /\ frame_lines = 0
    /\ last = Call("new", None, None, 0, "ok")
    /\ screen = <<>>
    /\ perm = <<>>
    /\ rloop = Absent
    /\ handler = Absent
    /\ fwriter = Absent
    /\ idgen = IdGenerator_default
    /\ hist = [fetched |-> 0, results |-> <<>>]

\* AtomicUsize::fetch_add(1): the old value is returned, the new one wraps.
fetch_add(counter) == [old |-> counter, new |-> (counter + 1) % Wrap]

\* NonZeroUsize::new: None for zero, the value itself otherwise.
NonZeroUsize_new(raw) == IF raw = 0 THEN None ELSE raw

\* First half of next(): the atomic read-modify-write.
next_fetch(t) ==
    /\ idgen.thread[t].pc = "idle"
    /\ hist.fetched < MaxCalls
    /\ LET f == fetch_add(idgen.counter)
       IN  /\ idgen' = [idgen EXCEPT
                  !.counter = f.new,
                  !.thread[t] = [pc |-> "fetched", id |-> f.old]]
           /\ hist' = [hist EXCEPT
                  !.fetched = @ + 1,
                  !.results = Append(@, [thread |-> t,
                                         id |-> NonZeroUsize_new(f.old)])]
    /\ UNCHANGED <<renderer, screen, perm, rloop, handler, fwriter>>

\* Second half of next(): expect("TaskId generation overflow") either
\* unwinds the thread or hands the identity to the caller.
next_expect(t) ==
    /\ idgen.thread[t].pc = "fetched"
    /\ LET id == NonZeroUsize_new(idgen.thread[t].id)
       IN  idgen' = [idgen EXCEPT !.thread[t] =
                        [pc |-> IF id = None THEN "panicked" ELSE "idle",
                         id |-> None]]
    /\ UNCHANGED <<renderer, hist, screen, perm, rloop, handler, fwriter>>

IdsNext ==
    \/ \E t \in Threads : next_fetch(t)
    \/ \E t \in Threads : next_expect(t)

SpecIds == IdsInit /\ [][IdsNext]_vars

\* ---------------------------------------- SpecHandler: the ChannelHandler
\* `handler` is a ChannelHandler and its transport: whether an error handler
\* is registered, which transport it owns ("mpsc" is std's Sender, whose send
\* fails exactly when the receiver is gone; "custom" is any other
\* ActionTransport, which may fail at any call), whether the receiver still
\* exists, the actions the transport accepted and the errors the registered
\* error handler was called with.  `hist.handled` lists the calls of handle:
\* the action and whether send_action returned Ok.
Transports == {"mpsc", "custom"}

\* channel_layer (error_handler: None), or channel_layer followed by
\* with_error_handler (Some).
ChannelHandler_new(transport, error_handler) ==
    [transport |-> transport, error_handler |-> error_handler,
     receiver |-> TRUE, delivered |-> <<>>, reported |-> <<>>]

HandlerInit ==
    /\ max_events = DefaultMaxEvents
    /\ tasks = with_max_events
    /\ frame_lines = 0
    /\ last = Call("new", None, None, 0, "ok")
    /\ screen = <<>>
    /\ perm = <<>>
    /\ rloop = Absent
    /\ idgen = Absent
    /\ fwriter = Absent
    /\ \E transport \in Transports, error_handler \in BOOLEAN :
          handler = ChannelHandler_new(transport, error_handler)
    /\ hist = [handled |-> <<>>]

\* The actions the layer produces: an event (on_event) or the end of a task
\* (on_close), numbered so that two of them are never confused.
Handled(n) ==
    {[n |-> n, op |-> "Event", parent |-> None, data |-> n],
     [n |-> n, op |-> "TaskEnd", id |-> 1]}

\* Whether send_action may return Ok (ok = TRUE) or Err (ok = FALSE) now.
send_action(h, ok) ==
    IF h.transport = "mpsc" THEN ok = h.receiver ELSE TRUE

\* The Err arm of handle, called twice.
on_Err_reports_twice(h, error) ==
    IF h.error_handler
    THEN [h EXCEPT !.reported = @ \o <<error, error>>]
    ELSE h

\* The Err arm of handle: the error handler, if there is one, is called
\* with the error; the error (and the action inside it) is then dropped.
on_Err(h, error) ==
    IF h.error_handler
    THEN [h EXCEPT !.reported = Append(@, error)]
    ELSE h

\* The Ok arm of handle: the transport has taken the action.
on_Ok(h, action) == [h EXCEPT !.delivered = Append(@, action)]

\* ChannelHandler::handle(action)
Handle(action, ok) ==
    /\ handler # Absent
    /\ Len(hist.handled) < MaxHandled
    /\ send_action(handler, ok)
    /\ handler' = IF ok THEN on_Ok(handler, action)
                        ELSE on_Err(handler, [error |-> "SendError", action |-> action])
    /\ hist' = [hist EXCEPT !.handled = Append(@, [action |-> action, ok |-> ok])]
    /\ UNCHANGED <<renderer, screen, perm, rloop, idgen, fwriter>>

\* The render thread drops the receiving end of the channel.
DropReceiver ==
    /\ handler # Absent
    /\ handler.receiver
    /\ handler' = [handler EXCEPT !.receiver = FALSE]
    /\ UNCHANGED <<renderer, hist, screen, perm, rloop, idgen, fwriter>>

HandlerNext ==
    \/ \E action \in Handled(Len(hist.handled) + 1), ok \in BOOLEAN :
          Handle(action, ok)
    \/ DropReceiver

SpecHandler == HandlerInit /\ [][HandlerNext]_vars

\* ------------------------------------------- SpecWriter: the FrameWriter
\* `fwriter` is a FrameWriter and its target: the line counter, the sink
\* (its kind and the bytes it has accepted since the counter was reset), and
\* the rest of the buffer that a write! in progress (io::Write::write_all)
\* still has to hand over.  A "whole" sink takes every buffer whole; a
\* "partial" one may take any part of it, or nothing, or fail.
\* `hist.writes` counts the calls of FrameWriter::write.
Bytes == {"x", "\n"}

SinkKinds == {"whole", "partial"}

\* The buffers a callback writes: up to MaxBuf bytes, at least one.
RECURSIVE BufsOfLen(_)
BufsOfLen(n) ==
    IF n = 0 THEN {<<>>}
    ELSE {Append(b, c) : b \in BufsOfLen(n - 1), c \in Bytes}

Bufs == UNION {BufsOfLen(n) : n \in 1 .. MaxBuf}

\* FrameWriter::new(target, 0): the counter starts at 0 (the FrameWriter of
\* render's active pass, or any FrameWriter after clear_frame).
FrameWriter_new(kind) ==
    [frame_lines |-> 0, sink |-> kind, accepted |-> <<>>, buf |-> <<>>]

WriterInit ==
    /\ max_events = DefaultMaxEvents
    /\ tasks = with_max_events
    /\ frame_lines = 0
    /\ last = Call("new", None, None, 0, "ok")
    /\ screen = <<>>
    /\ perm = <<>>
    /\ rloop = Absent
    /\ idgen = Absent
    /\ handler = Absent
    /\ \E kind \in SinkKinds : fwriter = FrameWriter_new(kind)
    /\ hist = [writes |-> 0]

\* buf.iter().filter(|&&b| b == b'\n').count()
newlines(buf) == Len(SelectSeq(buf, LAMBDA b : b = "\n"))

\* What the sink may answer to write(buf): Ok with the number of bytes it
\* took, ErrorKind::Interrupted, or another error.
SinkAnswers(kind, buf) ==
    IF kind = "whole"
    THEN {[ok |-> TRUE, n |-> Len(buf), err |-> "none"]}
    ELSE {[ok |-> TRUE, n |-> n, err |-> "none"] : n \in 0 .. Len(buf)}
         \cup {[ok |-> FALSE, n |-> 0, err |-> e] : e \in {"Interrupted", "Other"}}

\* impl Write for FrameWriter, write: the line breaks of the whole buffer
\* are counted, then the buffer goes to the target.
FrameWriter_write(w, buf, answer) ==
    [w EXCEPT !.frame_lines = @ + newlines(buf),
              !.accepted = IF answer.ok THEN @ \o SubSeq(buf, 1, answer.n) ELSE @]

\* io::Write::write_all, the buffer left for its next turn: the rest after
\* Ok(n), the same buffer after Interrupted, nothing once it returns
\* (buffer handed over, Ok(0), or another error).
write_all_rest(buf, answer) ==
    IF answer.ok
    THEN (IF answer.n = 0 THEN <<>> ELSE SubSeq(buf, answer.n + 1, Len(buf)))
    ELSE (IF answer.err = "Interrupted" THEN buf ELSE <<>>)

\* A callback starts write!(f, ..) with the bytes `buf`.
WriteAll(buf) ==
    /\ fwriter # Absent
    /\ fwriter.buf = <<>>
    /\ hist.writes < MaxWrites
    /\ fwriter' = [fwriter EXCEPT !.buf = buf]
    /\ UNCHANGED <<renderer, observer, rloop, idgen, handler>>

\* One turn of write_all: a call of FrameWriter::write.
Write(answer) ==
    /\ fwriter # Absent
    /\ fwriter.buf # <<>>
    /\ hist.writes < MaxWrites
    /\ answer \in SinkAnswers(fwriter.sink, fwriter.buf)
    /\ fwriter' = [FrameWriter_write(fwriter, fwriter.buf, answer)
                      EXCEPT !.buf = write_all_rest(fwriter.buf, answer)]
    /\ hist' = [hist EXCEPT !.writes = @ + 1]
    /\ UNCHANGED <<renderer, screen, perm, rloop, idgen, handler>>

WriterNext ==
    \/ \E buf \in Bufs : WriteAll(buf)
    \/ \E n \in 0 .. MaxBuf, ok \in BOOLEAN, e \in {"Interrupted", "Other"} :
          Write([ok |-> ok, n |-> IF ok THEN n ELSE 0,
                 err |-> IF ok THEN "none" ELSE e])

SpecWriter == WriterInit /\ [][WriterNext]_vars

\* ---------------------------------------- SpecInline: the InlineHandler
\* `handler` is an InlineHandler: the Mutex around (TaskRenderer, writer)
\* (its owner, None when free, and whether a panic poisoned it) and, for
\* every thread, where it is inside handle and with which action.  The
\* TaskRenderer inside the Mutex is tasks, max_events, frame_lines, last.
\* `hist.log` lists what was done to the TaskRenderer, by whom, for which
\* call of handle; `hist.calls` counts the calls of handle.

\* inline_layer: Mutex::new((TaskRenderer::new(renderer), writer))
InlineHandler_new ==
    [owner |-> None, poisoned |-> FALSE,
     thread |-> [t \in Threads |-> [pc |-> "idle", n |-> 0, action |-> None]]]

InlineInit ==
    /\ max_events = DefaultMaxEvents
    /\ tasks = with_max_events
    /\ frame_lines = 0
    /\ last = Call("new", None, None, 0, "ok")
    /\ screen = <<>>
    /\ perm = <<>>
    /\ rloop = Absent
    /\ idgen = Absent
    /\ fwriter = Absent
    /\ handler = InlineHandler_new
    /\ hist = [calls |-> 0, log |-> <<>>]

\* The layer calls handle(action) on thread t (on_new_span, on_event or
\* on_close of a span on that thread).
InlineCall(t, action) ==
    /\ handler.thread[t].pc = "idle"
    /\ hist.calls < MaxInline
    /\ handler' = [handler EXCEPT !.thread[t] =
                      [pc |-> "lock", n |-> hist.calls + 1, action |-> action]]
    /\ hist' = [hist EXCEPT !.calls = @ + 1]
    /\ UNCHANGED <<renderer, screen, perm, rloop, idgen, fwriter>>

\* Variant of mutex_free for a Mutex that excludes nobody.
mutex_free_always(h) == TRUE

\* Mutex::lock returns only while no thread holds the guard.
mutex_free(h) == h.owner = None

\* self.inner.lock().unwrap(): the thread gets the guard, or panics because
\* the Mutex is poisoned.
InlineLock(t) ==
    /\ handler.thread[t].pc = "lock"
    /\ mutex_free(handler)
    /\ handler' = IF handler.poisoned
                  THEN [handler EXCEPT !.thread[t].pc = "panicked"]
                  ELSE [handler EXCEPT !.owner = t, !.thread[t].pc = "update"]
    /\ UNCHANGED <<renderer, observer, rloop, idgen, fwriter>>

\* renderer.update(action), under the guard
InlineUpdate(t) ==
    /\ handler.thread[t].pc = "update"
    /\ LoopUpdate(handler.thread[t].action)
    /\ handler' = [handler EXCEPT !.thread[t].pc = "render"]
    /\ hist' = [hist EXCEPT !.log = Append(@, [thread |-> t, op |-> "update",
                                                n |-> handler.thread[t].n])]
    /\ UNCHANGED <<screen, perm, rloop, idgen, fwriter>>

\* `let _ = renderer.render(writer)`, under the guard, then the guard is
\* dropped: handle returns whatever render returned, and a panic inside
\* render unwinds through handle and poisons the Mutex.
InlineRender(t, fail, k) ==
    /\ handler.thread[t].pc = "render"
    /\ Render(fail, k)
    /\ handler' = [handler EXCEPT
          !.owner = IF handler.owner = t THEN None ELSE @,
          !.poisoned = @ \/ last'.result = "panic",
          !.thread[t] = [pc |-> IF last'.result = "panic" THEN "panicked" ELSE "idle",
                         n |-> 0, action |-> None]]
    /\ hist' = [hist EXCEPT !.log = Append(@, [thread |-> t, op |-> "render",
                                                n |-> handler.thread[t].n])]
    /\ UNCHANGED <<screen, perm, rloop, idgen, fwriter>>

InlineNext ==
    \/ \E t \in Threads, action \in Sendable(hist.calls + 1) : InlineCall(t, action)
    \/ \E t \in Threads : InlineLock(t)
    \/ \E t \in Threads : InlineUpdate(t)
    \/ \E t \in Threads, fail \in FailPoints, k \in 0 .. MaxInline :
          InlineRender(t, fail, k)

SpecInline == InlineInit /\ [][InlineNext]_vars

\* ------------------------------------------------ SpecSiblings: child sets
\* A producer that uses the identities 1..MaxSiblings and sends no events,
\* so that a task (the root included) has up to MaxSiblings children and a
\* render can remove one of three siblings.
SiblingIds == 1 .. MaxSiblings

SiblingsNext ==
    \/ \E id \in SiblingIds, parent \in {None, ROOT} \cup SiblingIds, data \in TaskData :
          UpdateTaskStart(id, parent, data) /\ UNCHANGED <<observer, outside>>
    \/ \E id \in SiblingIds : UpdateTaskEnd(id) /\ UNCHANGED <<observer, outside>>
    \/ UpdateCancelAll /\ UNCHANGED <<observer, outside>>
    \/ \E fail \in FailPoints, k \in 0 .. MaxSiblings :
          Render(fail, k) /\ UNCHANGED <<observer, outside>>

SpecSiblings == Init /\ [][SiblingsNext]_vars

\* ================================================================ claims
\* Number of positions of `seq` that hold `x`.
Occurrences(seq, x) == Cardinality({i \in 1 .. Len(seq) : seq[i] = x})

\* The tasks of `s` that list `t` among their subtasks.
ListedBy(s, t) == {p \in DOMAIN s : Contains(s[p].subtasks, t)}

\* The strict descendants of `t` in `s`, by following child sets.
RECURSIVE Descendants(_, _)
Descendants(s, t) ==
    LET kids == {s[t].subtasks[i] : i \in 1 .. Len(s[t].subtasks)} \cap DOMAIN s
    IN kids \cup UNION {Descendants(s, k) : k \in kids}

\* C1: right after TaskStart{id: X, parent: Some(P)} with P present and X
\* absent, X is listed exactly once in P's child set, as its last element,
\* X's parent field is P and X's depth is P's depth + 1.
C1_TaskStartUnderPresentParent ==
    [][(/\ last'.op = "TaskStart"
        /\ last'.parent \in DOMAIN tasks
        /\ last'.id \notin DOMAIN tasks)
       => LET X == last'.id
              P == last'.parent
              kids == tasks'[P].subtasks
          IN /\ X \in DOMAIN tasks'
             /\ Len(kids) >= 1
             /\ kids[Len(kids)] = X
             /\ Occurrences(kids, X) = 1
             /\ tasks'[X].parent = P
             /\ tasks'[X].depth = tasks'[P].depth + 1]_vars

\* C1 witness: a task was just started under a present non-root parent.
C1_Witness ==
    /\ last.op = "TaskStart"
    /\ last.parent \in TaskIds
    /\ last.id \in DOMAIN tasks
    /\ tasks[last.id].parent = last.parent
    /\ tasks[last.id].depth = 2

\* C2: TaskStart whose parent is None or names an identity not in the store
\* appends the new task to ROOT's child set with depth 1, and no other
\* task's child set changes.
C2_TaskStartUnresolvedParentGoesToRoot ==
    [][(/\ last'.op = "TaskStart"
        /\ last'.id \notin DOMAIN tasks
        /\ (last'.parent = None \/ last'.parent \notin DOMAIN tasks))
       => LET X == last'.id
          IN /\ X \in DOMAIN tasks'
             /\ tasks'[ROOT].subtasks = Append(tasks[ROOT].subtasks, X)
             /\ tasks'[X].depth = 1
             /\ \A t \in (DOMAIN tasks) \ {ROOT} :
                   /\ t \in DOMAIN tasks'
                   /\ tasks'[t].subtasks = tasks[t].subtasks]_vars

\* C2 witness: a task was just started naming a parent identity that is not
\* in the store, next to an older top-level task.
C2_Witness ==
    /\ last.op = "TaskStart"
    /\ last.parent \in RefIds
    /\ last.parent \notin DOMAIN tasks
    /\ last.id \in DOMAIN tasks
    /\ tasks[last.id].depth = 1
    /\ Len(tasks[ROOT].subtasks) = 2

\* C2 witness for the absent parent: started with parent None.
C2_WitnessNone ==
    /\ last.op = "TaskStart"
    /\ last.parent = None
    /\ last.id \in DOMAIN tasks
    /\ tasks[last.id].depth = 1

\* C3 as stated: an Event whose parent is None or names an identity not in
\* the store ends up as the newest entry of ROOT's event buffer.
C3_Original_EventUnresolvedParentGoesToRoot ==
    [][(/\ last'.op = "Event"
        /\ (last'.parent = None \/ last'.parent \notin DOMAIN tasks))
       => LET evs == tasks'[ROOT].events
          IN /\ Len(evs) >= 1
             /\ evs[Len(evs)] = last'.data]_vars

\* C3 amended: an Event whose parent is None (or names ROOT) is pushed on
\* ROOT's buffer and is its newest entry; an Event whose parent names an
\* identity not in the store is dropped and the store is unchanged.
C3_EventAbsentParentGoesToRootUnknownDropped ==
    [][(last'.op = "Event")
       => /\ (last'.parent \in {None, ROOT})
                => LET evs == tasks'[ROOT].events
                   IN /\ Len(evs) >= 1
                      /\ evs[Len(evs)] = last'.data
                      /\ Len(tasks[ROOT].events) < max_events
                           => evs = Append(tasks[ROOT].events, last'.data)
                      /\ \A t \in (DOMAIN tasks) \ {ROOT} : tasks'[t] = tasks[t]
          /\ (last'.parent # None /\ last'.parent \notin DOMAIN tasks)
                => tasks' = tasks]_vars

\* C3 witness: an event with no parent was just pushed behind an older,
\* different root-level event.
C3_Witness ==
    /\ last.op = "Event"
    /\ last.parent = None
    /\ Len(tasks[ROOT].events) = 2
    /\ tasks[ROOT].events[2] = last.data
    /\ tasks[ROOT].events[1] # last.data

\* C3 witness for the dropped case: an event naming an identity that is
\* not in the store was just applied while ROOT still buffers an event.
C3_WitnessDropped ==
    /\ last.op = "Event"
    /\ last.parent \in TaskIds
    /\ last.parent \notin DOMAIN tasks
    /\ Len(tasks[ROOT].events) = 1
    /\ tasks[ROOT].events[1] # last.data

\* C4: TaskEnd{id} with id present changes nothing but that task's
\* completed flag, which becomes true; with id absent the store is
\* unchanged; no error is raised either way.
C4_TaskEndOnlySetsCompleted ==
    [][(last'.op = "TaskEnd")
       => /\ last'.result = "ok"
          /\ DOMAIN tasks' = DOMAIN tasks
          /\ \A t \in DOMAIN tasks :
                /\ tasks'[t].completed = (tasks[t].completed \/ t = last'.id)
                /\ tasks'[t].cancelled = tasks[t].cancelled
                /\ tasks'[t].depth = tasks[t].depth
                /\ tasks'[t].parent = tasks[t].parent
                /\ tasks'[t].data = tasks[t].data
                /\ tasks'[t].events = tasks[t].events
                /\ tasks'[t].subtasks = tasks[t].subtasks
          /\ (last'.id \notin DOMAIN tasks) => tasks' = tasks]_vars

\* C4 witness: TaskEnd was just applied to a present task that has a child
\* and buffered events.
C4_Witness ==
    /\ last.op = "TaskEnd"
    /\ last.id \in TaskIds \cap DOMAIN tasks
    /\ tasks[last.id].completed
    /\ tasks[last.id].subtasks # <<>>
    /\ tasks[last.id].events # <<>>

\* C4 witness for the unknown id: TaskEnd was just applied to an identity
\* that is not in the store, which holds an open task.
C4_WitnessUnknown ==
    /\ last.op = "TaskEnd"
    /\ last.id \notin DOMAIN tasks
    /\ \E t \in TaskIds \cap DOMAIN tasks : ~tasks[t].completed

\* C5: CancelAll sets the cancelled flag of every task in the store except
\* ROOT, leaves ROOT's flag unset and changes nothing else.
C5_CancelAllCancelsEveryTaskButRoot ==
    [][(last'.op = "CancelAll")
       => /\ DOMAIN tasks' = DOMAIN tasks
          /\ ~tasks'[ROOT].cancelled
          /\ \A t \in DOMAIN tasks :
                tasks'[t] = [tasks[t] EXCEPT !.cancelled = (t # ROOT)]]_vars

\* C5 witness: CancelAll was just applied to a store with a completed task
\* at depth 2 that buffers an event.
C5_Witness ==
    /\ last.op = "CancelAll"
    /\ \E t \in TaskIds \cap DOMAIN tasks :
          /\ tasks[t].depth = 2
          /\ tasks[t].cancelled
          /\ tasks[t].completed
          /\ tasks[t].events # <<>>

\* C6: CancelAll is idempotent: from every reachable store, applying it
\* twice gives the store that applying it once gives.
C6_CancelAllIdempotent ==
    apply(apply(tasks, max_events, [type |-> "CancelAll"]),
          max_events, [type |-> "CancelAll"])
      = apply(tasks, max_events, [type |-> "CancelAll"])

\* C6 witness: CancelAll was just applied to a two-level tree, so applying
\* it from here is the second application in a row.
C6_Witness ==
    /\ last.op = "CancelAll"
    /\ \E t \in TaskIds \cap DOMAIN tasks : tasks[t].depth = 2 /\ tasks[t].cancelled
    /\ \E t \in TaskIds \cap DOMAIN tasks : tasks[t].depth = 1 /\ tasks[t].cancelled

\* C7: the store always holds the ROOT record, which has no payload data and
\* is neither completed nor cancelled (TaskEnd may name any TaskId, ROOT
\* included).
C7_RootNeverCompletedOrCancelled ==
    /\ ROOT \in DOMAIN tasks
    /\ tasks[ROOT].data = NoData
    /\ ~tasks[ROOT].completed
    /\ ~tasks[ROOT].cancelled

\* C8: ROOT has depth 0 and every other task in the store has the depth of
\* the task its parent field names, plus 1.
C8_DepthIsParentDepthPlusOne ==
    /\ tasks[ROOT].depth = 0
    /\ \A t \in (DOMAIN tasks) \ {ROOT} :
          /\ tasks[t].parent \in DOMAIN tasks
          /\ tasks[t].depth = tasks[tasks[t].parent].depth + 1

\* C8 witness: a render just ran and left a task at depth 2 under a task
\* at depth 1.
C8_Witness ==
    /\ last.op = "Render"
    /\ \E t \in TaskIds \cap DOMAIN tasks :
          /\ tasks[t].depth = 2
          /\ tasks[t].parent \in TaskIds
          /\ tasks[tasks[t].parent].depth = 1

\* C9: every non-ROOT task in the store is listed in the child set of
\* exactly one task, the one its parent field names, and ROOT is listed in
\* no child set.
C9_ChildOfExactlyItsParent ==
    /\ ListedBy(tasks, ROOT) = {}
    /\ \A t \in (DOMAIN tasks) \ {ROOT} :
          /\ ListedBy(tasks, t) = {tasks[t].parent}
          /\ Occurrences(tasks[tasks[t].parent].subtasks, t) = 1

\* C9 witness: a render just removed a task and the store still holds a
\* top-level task.
C9_Witness ==
    /\ last.op = "Render"
    /\ last.removed # {}
    /\ \E t \in TaskIds \cap DOMAIN tasks : ListedBy(tasks, t) = {ROOT}

\* C10: every identity listed in a child set is in the store; and when a
\* render removes a finished root-level task, the task is detached from
\* ROOT's child set and all its descendants leave the store in that call.
C10_NoDanglingChildIdentities ==
    [][/\ \A p \in DOMAIN tasks' : \A i \in 1 .. Len(tasks'[p].subtasks) :
              tasks'[p].subtasks[i] \in DOMAIN tasks'
       /\ (last'.op = "Render")
             => \A i \in 1 .. Len(last'.flushed) :
                   LET t == last'.flushed[i]
                   IN /\ t \notin DOMAIN tasks'
                      /\ ~Contains(tasks'[ROOT].subtasks, t)
                      /\ Descendants(tasks, t) \cap DOMAIN tasks' = {}]_vars

\* C10 witness: a render just removed one finished root-level task together
\* with a descendant.
C10_Witness ==
    /\ last.op = "Render"
    /\ Len(last.flushed) = 1
    /\ Cardinality(last.removed) = 2

\* ------------------------------------------------------------------ C11
\* The most recent n elements of a sequence, oldest of those first.
LastN(seq, n) == SubSeq(seq, Len(seq) - n + 1, Len(seq))

Min(a, b) == IF a < b THEN a ELSE b

\* C11: in a store with retention bound k, the buffer of a task below the
\* root never holds more than k events, and holds exactly the most recent
\* min(k, N) of the N events attributed to the task, in arrival order.
C11_RollingRetention ==
    \A t \in (DOMAIN tasks) \ {ROOT} :
        /\ Len(tasks[t].events) <= max_events
        /\ tasks[t].events = LastN(hist[t], Min(max_events, Len(hist[t])))

\* A task below the root was sent more events than the bound of its store,
\* the bound being at least one.
C11_Witness ==
    \E t \in (DOMAIN tasks) \ {ROOT} :
        /\ max_events >= 1
        /\ Len(hist[t]) > max_events
        /\ last.op = "Event"

\* ------------------------------------------------------------------ C12
\* C12: events attributed to ROOT are exempt from retention between
\* renders: whenever a render may start, every event attributed to ROOT
\* since the previous render is still in ROOT's buffer, in arrival order.
C12_RootEventsKeptUntilRender == tasks[ROOT].events = hist[ROOT]

\* ------------------------------------------------------------------ C13
\* The data of the render_event_line callbacks made for ROOT, in order.
RootEventsOf(lines) ==
    LET evs == SelectSeq(lines, LAMBDA l : l.kind = "event" /\ l.task = ROOT)
    IN [i \in 1 .. Len(evs) |-> evs[i].data]

\* C13: a successful render renders, in its flush pass, every root-level
\* event applied since the previous render, once and in order, and leaves
\* ROOT's buffer empty, so that no later frame repeats one.
C13_RootEventsRenderedOnce ==
    [][(last'.op = "Render" /\ last'.result = "ok" /\ last' # last)
          => /\ RootEventsOf(last'.out.flush) = hist[ROOT]
             /\ RootEventsOf(last'.out.active) = <<>>
             /\ tasks'[ROOT].events = <<>>]_vars

\* ------------------------------------------------------------------ C14
\* The children of ROOT that are completed or cancelled.
FinishedRoots(s) ==
    {t \in DOMAIN s : /\ Contains(s[ROOT].subtasks, t)
                      /\ (s[t].completed \/ s[t].cancelled)}

\* A render call that has just returned Ok.
RenderedOk == last'.op = "Render" /\ last'.result = "ok" /\ last' # last

\* C14: a root-level task that is completed or cancelled when a successful
\* render starts is rendered by that call, in its flush pass, together with
\* its whole subtree (one render_task_line each, none in the active pass),
\* and neither it nor any of its descendants is in the store afterwards.
C14_FinishedRootTaskFlushedOnce ==
    [][RenderedOk =>
          \A t \in FinishedRoots(tasks) :
              \A d \in {t} \cup Descendants(tasks, t) :
                  /\ Occurrences(last'.out.flush, TaskLine(d)) = 1
                  /\ Occurrences(last'.out.active, TaskLine(d)) = 0
                  /\ d \notin DOMAIN tasks']_vars

\* A successful render has just flushed a finished root-level task and a
\* descendant of it.
C14_Witness ==
    /\ last.op = "Render" /\ last.result = "ok"
    /\ \E i, j \in 1 .. Len(last.out.flush) :
          /\ last.out.flush[i].kind = "task" /\ last.out.flush[j].kind = "task"
          /\ Contains(last.flushed, last.out.flush[i].task)
          /\ ~Contains(last.flushed, last.out.flush[j].task)
          /\ {last.out.flush[i].task, last.out.flush[j].task} \cap DOMAIN tasks = {}

\* ------------------------------------------------------------------ C15
\* The finished children of ROOT together with all their descendants.
Flushable(s) ==
    FinishedRoots(s) \cup UNION {Descendants(s, t) : t \in FinishedRoots(s)}

\* The completed tasks below root level whose root-level ancestor is
\* neither completed nor cancelled.
CompletedUnderActiveRoot(s) ==
    {t \in (DOMAIN s) \ Flushable(s) :
        t # ROOT /\ s[t].completed /\ s[t].parent # ROOT}

\* C15: a task enters the store only by the TaskStart that names it and
\* leaves it only during a render, and then only as a finished child of
\* ROOT or a descendant of one; update never removes a task.  A completed
\* task below root level under an active root-level ancestor stays in the
\* store and is rendered in the active region of every frame.
C15_TaskLifecycle ==
    [][/\ (DOMAIN tasks') \ (DOMAIN tasks) # {}
            => /\ last'.op = "TaskStart"
               /\ (DOMAIN tasks') \ (DOMAIN tasks) = {last'.id}
       /\ (DOMAIN tasks) \ (DOMAIN tasks') # {}
            => /\ last'.op = "Render"
               /\ (DOMAIN tasks) \ (DOMAIN tasks') \subseteq Flushable(tasks)
       /\ CompletedUnderActiveRoot(tasks) \subseteq DOMAIN tasks'
       /\ RenderedOk
            => \A t \in CompletedUnderActiveRoot(tasks) :
                   /\ Occurrences(last'.out.active, TaskLine(t)) = 1
                   /\ Occurrences(last'.out.flush, TaskLine(t)) = 0]_vars

\* A successful render has just drawn, in its active region, a completed
\* task of depth 2 that is still in the store.
C15_Witness ==
    /\ last.op = "Render" /\ last.result = "ok"
    /\ \E t \in DOMAIN tasks :
          /\ tasks[t].completed /\ tasks[t].depth = 2
          /\ Contains(last.out.active, TaskLine(t))

\* A render has just removed a task from the store.
C15_WitnessRemoved == last.op = "Render" /\ last.removed # {}

\* ------------------------------------------------------------------ C16
\* The concatenation of a sequence of sequences.
RECURSIVE Flatten(_)
Flatten(seqs) == IF seqs = <<>> THEN <<>> ELSE Head(seqs) \o Flatten(Tail(seqs))

C16_WitnessCompleted ==
    /\ last.op = "TaskEnd"
    /\ \E t \in (DOMAIN tasks) \ {ROOT} :
          /\ last.id = t
          /\ tasks[t].completed
          /\ tasks[t].events # <<>>
          /\ Len(tasks[t].subtasks) = 1
          /\ render_task(tasks, t) = <<TaskLine(t), TaskLine(tasks[t].subtasks[1])>>

\* ------------------------------------------------------------------ C17
\* A render call that has just returned (Ok or Err): its writes of the
\* clear sequence, if any, reached the sink.
Rendered == last'.op = "Render" /\ last'.result # "panic" /\ last' # last

\* The clear sequences that erase a frame of L lines: one, or none at all
\* for an empty frame.
ClearFor(L) == IF L > 0 THEN <<L>> ELSE <<>>

C17_WitnessEmpty ==
    /\ last.op = "Render" /\ last.result = "ok"
    /\ last.out.clear = <<>>
    /\ last.out.active # <<>>

\* ------------------------------------------------------------------ C18
\* C18: the erasable-line count a successful render records is the number
\* of lines of its active pass alone, so the terminal always shows all
\* flush-pass lines of all renders in order, followed by as many lines as
\* the count says, which right after a render are the active-pass lines of
\* that render (updates write nothing).
C18_FlushedOutputPermanent ==
    /\ SubSeq(screen, 1, Len(perm)) = perm
    /\ Len(screen) = Len(perm) + frame_lines
    /\ (last.op = "Render" /\ last.result = "ok")
          => /\ frame_lines = Len(last.out.active)
             /\ screen = perm \o last.out.active

\* A render has just erased a frame of at least one line, below at least
\* one permanent line, and has added flush-pass lines and a new frame.
C18_Witness ==
    /\ last.op = "Render" /\ last.result = "ok"
    /\ last.out.clear # <<>>
    /\ last.out.flush # <<>>
    /\ last.out.active # <<>>
    /\ Len(perm) > Len(last.out.flush)

\* ------------------------------------------------------------------ C19
\* C19: whenever render returns an error, wherever the callback or the sink
\* failed (the final flush included), the stored erasable-line count is
\* what it was before the call.
C19_ErrorLeavesFrameLines ==
    [][(last'.op = "Render" /\ last'.result = "err" /\ last' # last)
          => frame_lines' = frame_lines]_vars

\* ------------------------------------------------------------------ C20
\* C20: a sink failure at any point of render, the write of the clear
\* sequence included, makes render return Err; render never panics.
C20_SinkFailureNeverPanics ==
    last.op = "Render" => last.result \in {"ok", "err"}

\* ------------------------------------------------------------------ C21
\* The numbers carried by the root-level events among the messages `msgs`.
EventNumbers(msgs) ==
    LET evs == SelectSeq(msgs, LAMBDA m : m.action.type = "Event")
    IN [i \in 1 .. Len(evs) |-> evs[i].n]

\* C21: in every cycle of the render loop (run, run_until, run_async, tick)
\* the actions are applied in the exact order they were received, the i-th
\* applied being the i-th sent, which shows in the store and on the
\* terminal; and when the cycle's render is due, every action that was
\* available when the drain began has been applied.
C21_DrainedInOrderBeforeRender ==
    /\ \A i \in 1 .. Len(hist.applied) : hist.applied[i].n = i
    /\ RootEventsOf(perm) \o tasks[ROOT].events = EventNumbers(hist.applied)
    /\ rloop.pc = "render" => Len(hist.applied) >= hist.drain_sent

\* A cycle has just rendered two root-level events that one drain applied.
C21_Witness ==
    /\ rloop.pc \in {"check", "idle"}
    /\ hist.drain_sent >= 2
    /\ Len(RootEventsOf(last.out.flush)) >= 2

\* ------------------------------------------------------------------ C22
\* C22: once the loop has observed the stop signal (stop() true in
\* run_until, wait_fn resolved to false in run_async) it makes one final
\* drain of the source, applies CancelAll if cancel_on_close is set, and
\* renders exactly one closing frame before it returns.
C22_StopThenFinalDrainAndClosingFrame ==
    (rloop.pc = "done" /\ hist.left = "stop")
        => /\ hist.drains_after = 1
           /\ hist.renders_after = 1

\* ------------------------------------------------------------------ C23
\* C23: with producers sending and then raising the stop flag while
\* run_until runs, the final frame before run_until returns reflects every
\* action sent before the stop flag was raised: all of them have been
\* applied, none is left in the channel.
C23_FinalFrameReflectsAllSentBeforeStop ==
    (rloop.mode = "run_until" /\ rloop.pc = "done" /\ hist.left = "stop")
        => Len(hist.applied) >= hist.at_stop

\* ------------------------------------------------------------------ C24
\* run, run_until or run_async has left its loop.
LeftLoop == rloop.pc \in {"cancel", "close_render", "done"}

\* What holds of the loop of run, run_until and run_async at every moment.
C24_Safety ==
    rloop.mode # "tick" =>
        \* the cycle whose drain reported the source closed is the last one
        /\ ~rloop.alive => rloop.pc \in {"render", "check"} \/ LeftLoop
        \* the loop is left exactly for closure or for the stop signal
        /\ LeftLoop <=> hist.left # "no"
        /\ hist.left = "closed" => ~rloop.alive
        /\ hist.left = "stop" => rloop.stop /\ rloop.mode \in {"run_until", "run_async"}
        \* after the loop: at most one render, no drain, no wait
        /\ hist.renders_after <= 1
        /\ hist.drains_after = 0
        /\ hist.waits_after = 0
        /\ rloop.pc = "done" =>
              hist.renders_after = IF rloop.cancel_on_close THEN 1 ELSE 0

\* C24: the render loop terminates.  run, run_until and run_async return
\* once the source is closed, and run_until returns once stop() is true:
\* they leave the loop after the first cycle that sees it, then make at
\* most one further render and no further drain or wait.
C24_LoopTerminates ==
    /\ []C24_Safety
    /\ (rloop.mode # "tick" /\ ~rloop.senders) ~> (rloop.pc = "done")
    /\ (rloop.mode = "run_until" /\ rloop.stop) ~> (rloop.pc = "done")

\* run has returned after the source closed, having rendered one closing
\* frame after its loop.
C24_Witness ==
    /\ rloop.mode = "run"
    /\ rloop.pc = "done"
    /\ hist.left = "closed"
    /\ hist.renders_after = 1
    /\ Len(hist.applied) = MaxSent

\* ------------------------------------------------------------------ C25
\* drain_into has just returned.
DrainReturned == rloop.pc = "drain" /\ rloop'.pc = "render"

\* C25: drain_into for an mpsc Receiver never blocks (its next turn can
\* always be taken), applies the buffered actions oldest first, and returns
\* only with the channel empty: true when senders remain, false only when
\* all senders are dropped, and then every action ever sent has been
\* applied.
C25_DrainIntoMpsc ==
    [][/\ rloop.pc = "drain" => ENABLED TryRecv
       /\ (rloop.pc = "drain" /\ hist'.applied # hist.applied)
            => /\ hist'.applied = Append(hist.applied, Head(rloop.chan))
               /\ rloop'.chan = Tail(rloop.chan)
               /\ rloop'.pc = "drain"
       /\ DrainReturned
            => /\ rloop.chan = <<>>
               /\ rloop'.alive = rloop.senders
               /\ ~rloop'.alive => Len(hist.applied) = hist.sent]_vars

\* The first drain_into call has just returned false after applying all
\* MaxSent actions, the last of which were still buffered when the senders
\* went away.
C25_Witness ==
    /\ rloop.pc = "render"
    /\ ~rloop.alive
    /\ Len(hist.applied) = MaxSent
    /\ hist.drain_sent = 0
    /\ last.op \in {"Event", "TaskStart"}

\* ------------------------------------------------------------------ C26
\* Identities the calls of thread t returned, in the order it got them.
ReturnedTo(t) ==
    SelectSeq(hist.results, LAMBDA r : r.thread = t /\ r.id # None)

\* Identities returned to any thread, in the order of the calls.
Returned == SelectSeq(hist.results, LAMBDA r : r.id # None)

\* C26: the identities IdGenerator::next returns, to any threads in any
\* interleaving, are pairwise distinct and never ROOT; the identities one
\* thread receives are strictly increasing; the first identity issued is 1.
C26_DistinctIncreasingIds ==
    /\ \A i, j \in 1 .. Len(Returned) : i # j => Returned[i].id # Returned[j].id
    /\ \A i \in 1 .. Len(Returned) : Returned[i].id # ROOT
    /\ \A t \in Threads :
          \A i, j \in 1 .. Len(ReturnedTo(t)) :
             i < j => ReturnedTo(t)[i].id < ReturnedTo(t)[j].id
    /\ Len(Returned) >= 1 => Returned[1].id = 1

\* ------------------------------------------------------------------ C27
\* C27: with the counter wrapping modulo 2^IdBits, once a call has failed
\* for exhaustion every later call fails too, and no call returns an
\* identity that an earlier call returned.
C27_ExhaustionFatalNoAliasing ==
    /\ \A i, j \in 1 .. Len(hist.results) :
          (i < j /\ hist.results[i].id = None) => hist.results[j].id = None
    /\ \A i, j \in 1 .. Len(hist.results) :
          (i < j /\ hist.results[i].id # None)
             => hist.results[j].id # hist.results[i].id

\* ------------------------------------------------------------------ C28
\* The call of handle that the step from this state to the next one made.
JustHandled == hist'.handled[Len(hist'.handled)]

\* C28: a call of handle whose send_action fails delivers nothing, calls the
\* registered error handler exactly once, with that send's error, and calls
\* nothing when no error handler is registered; it returns normally, so the
\* handler can be called again, and a later send that succeeds is delivered.
C28_SendFailureReportedOnce ==
    [][ hist'.handled # hist.handled =>
          IF JustHandled.ok
          THEN /\ handler'.delivered = Append(handler.delivered, JustHandled.action)
               /\ handler'.reported = handler.reported
          ELSE /\ handler'.delivered = handler.delivered
               /\ handler'.reported =
                     IF handler.error_handler
                     THEN Append(handler.reported,
                                 [error |-> "SendError", action |-> JustHandled.action])
                     ELSE handler.reported
               /\ handler'.error_handler = handler.error_handler
               /\ Len(hist'.handled) < MaxHandled
                     => (ENABLED HandlerNext)' ]_vars

\* Three sends, the second of which failed: one error reported, the other
\* two actions delivered.
C28_Witness ==
    /\ handler # Absent
    /\ handler.error_handler
    /\ Len(hist.handled) = 3
    /\ hist.handled[1].ok /\ ~hist.handled[2].ok /\ hist.handled[3].ok
    /\ Len(handler.reported) = 1
    /\ handler.reported[1].action = hist.handled[2].action
    /\ Len(handler.delivered) = 2

\* ------------------------------------------------------------------ C29
\* C29: TaskView::parent is None for every task of depth 1 and a view of
\* the parent task for every deeper task.
C29_ParentNoneAtTopLevel ==
    \A t \in (DOMAIN tasks) \ {ROOT} :
       IF tasks[t].depth = 1
       THEN TaskView_parent(tasks, t) = None
       ELSE /\ TaskView_parent(tasks, t) \in (DOMAIN tasks) \ {ROOT}
            /\ Contains(tasks[TaskView_parent(tasks, t)].subtasks, t)

\* ------------------------------------------------------------------ C30
\* The elements of `seq`, as a set.
Range(seq) == {seq[i] : i \in 1 .. Len(seq)}

\* The present tasks whose parent is p.
PresentChildren(s, p) == {c \in DOMAIN s : s[c].parent = p}

\* In every state: a child set lists exactly the present children of its
\* task, each once; subtasks() yields that list; index() is the zero-based
\* position in it, so the indices of n siblings are 0 .. n-1.
C30_State ==
    \A p \in DOMAIN tasks :
       LET kids == TaskView_subtasks(tasks, p)
       IN  /\ Range(kids) = PresentChildren(tasks, p)
           /\ \A i, j \in 1 .. Len(kids) : kids[i] = kids[j] => i = j
           /\ \A i \in 1 .. Len(kids) : TaskView_index(tasks, kids[i]) = i - 1
           /\ {TaskView_index(tasks, c) : c \in PresentChildren(tasks, p)}
                 = 0 .. (Len(kids) - 1)

\* In every step: TaskStart puts the new task last in its parent's child
\* set; in any case the children that stay keep their relative order.
C30_Step ==
    /\ \A p \in (DOMAIN tasks) \cap (DOMAIN tasks') :
          SelectSeq(tasks'[p].subtasks, LAMBDA c : c \in Range(tasks[p].subtasks))
             = SelectSeq(tasks[p].subtasks, LAMBDA c : c \in Range(tasks'[p].subtasks))
    /\ (last'.op = "TaskStart" /\ tasks' # tasks) =>
          LET p == tasks'[last'.id].parent
          IN  tasks'[p].subtasks = Append(tasks[p].subtasks, last'.id)

\* C30: every child set lists its task's present children, without
\* duplicates, in the order of their TaskStart actions; a removal during
\* render keeps the order of the remaining siblings; subtasks() iterates in
\* that order and TaskView::index is the zero-based position in it.
C30_ChildSetsOrdered == []C30_State /\ [][C30_Step]_vars

\* A render has just removed the first of three siblings: the two that stay
\* keep their order and have moved from the indices 1, 2 to 0, 1.
C30_Witness ==
    /\ last.op = "Render"
    /\ last.removed = {1}
    /\ tasks[ROOT].subtasks = <<2, 3>>
    /\ TaskView_index(tasks, 2) = 0
    /\ TaskView_index(tasks, 3) = 1

\* A render has just removed the middle one of three siblings that were
\* started in the order 3, 1, 2.
C30_WitnessMiddle ==
    /\ last.op = "Render"
    /\ last.removed = {1}
    /\ tasks[ROOT].subtasks = <<3, 2>>
    /\ TaskView_index(tasks, 3) = 0
    /\ TaskView_index(tasks, 2) = 1

\* Two siblings started in the order 2, 1 are listed in that order.
C30_WitnessOrder ==
    /\ last.op = "TaskStart"
    /\ last.id = 1
    /\ TaskView_subtasks(tasks, ROOT) = <<2, 1>>

\* ------------------------------------------------------------------ C31
\* The root-level events a render call wrote in its flush pass.
RootEventLines(out) ==
    SelectSeq(out.flush, LAMBDA l : l.kind = "event" /\ l.task = ROOT)

\* The calls a successful render is said to make, given the number of
\* root-level events it rendered, the finished top-level tasks it flushed
\* and the top-level tasks that stay.
ExpectedCalls(fl, n, finished, staying) ==
    <<Cb("on_render_start", None, TRUE), Cb("clear_frame", fl, TRUE)>>
    \o [i \in 1 .. n |-> Cb("render_event_line", i - 1, TRUE)]
    \o [i \in 1 .. Len(finished) |-> Cb("render_task", finished[i], TRUE)]
    \o [i \in 1 .. Len(finished) |-> Cb("remove", finished[i], TRUE)]
    \o [i \in 1 .. Len(staying) |-> Cb("render_task", staying[i], TRUE)]
    \o <<Cb("flush", None, TRUE), Cb("on_render_end", None, TRUE)>>

\* C31: a successful render calls, in this order, on_render_start once,
\* clear_frame, render_event_line for each root-level event, render_task
\* for each finished top-level task in sibling order, remove for each of
\* them, render_task once for each top-level task that stays, in sibling
\* order, (the sink's flush,) and on_render_end once.
C31_CallbackOrder ==
    (last.op = "Render" /\ last.result = "ok") =>
       /\ \E fl \in 0 .. Len(last.trace) + MaxCallbacks :
             last.trace = ExpectedCalls(fl, Len(RootEventLines(last.out)),
                                        last.flushed, tasks[ROOT].subtasks)
       /\ \A t \in last.removed : t \notin DOMAIN tasks
       /\ \A i \in 1 .. Len(last.out.active) :
             last.out.active[i].task \in DOMAIN tasks

\* A render that wrote a root-level event, flushed one finished task and
\* drew one that stays.
C31_Witness ==
    /\ last.op = "Render" /\ last.result = "ok"
    /\ Len(RootEventLines(last.out)) = 1
    /\ Len(last.flushed) = 1
    /\ Len(tasks[ROOT].subtasks) = 1
    /\ Len(last.trace) = 8

\* A render that drew two top-level tasks in the active pass.
C31_WitnessTwoActive ==
    /\ last.op = "Render" /\ last.result = "ok"
    /\ tasks[ROOT].subtasks = <<2, 1>>
    /\ last.flushed = <<>>

\* ------------------------------------------------------------------ C32
\* How many of the calls of `trace` are calls of `cb`.
CallsOf(trace, cb) == Len(SelectSeq(trace, LAMBDA c : c.cb = cb))

\* C32: every render, whether it returns Ok or is cut short by an error,
\* calls on_render_start exactly once, before anything else, and
\* on_render_end exactly once, after everything else.
C32_HooksBalanced ==
    last.op = "Render" =>
       /\ CallsOf(last.trace, "on_render_start") = 1
       /\ last.trace[1].cb = "on_render_start"
       /\ CallsOf(last.trace, "on_render_end") = 1
       /\ last.trace[Len(last.trace)].cb = "on_render_end"

\* ------------------------------------------------------------------ C33
\* C33: once drain_into has reported the source closed, run renders exactly
\* one more frame; with cancel_on_close that frame comes after CancelAll, so
\* no frame rendered after the last drain shows a task as active; without
\* cancel_on_close the loop never applies CancelAll.
C33_RunClosesWithOneFrame ==
    rloop.mode = "run" =>
       /\ (rloop.cancel_on_close /\ ~rloop.alive /\ last.op = "Render")
             => last.out.active = <<>>
       /\ rloop.pc = "done" => 1 + hist.renders_after = 1
       /\ ~rloop.cancel_on_close => rloop.pc # "cancel"

\* ------------------------------------------------------------------ C34
\* C34: in a store built by TaskRenderer::new (the default bound), no task
\* other than ROOT ever buffers more than 3 events.
C34_DefaultWindowOfThree ==
    max_events = DefaultMaxEvents =>
       \A t \in (DOMAIN tasks) \ {ROOT} : Len(tasks[t].events) <= EventCap

\* ------------------------------------------------------------------ C35
\* C35: whatever the sink does (takes part of a buffer, fails a write), the
\* FrameWriter's line counter equals the number of newline bytes the sink
\* has accepted since the counter was reset.
C35_CounterIsAcceptedNewlines ==
    fwriter.frame_lines = newlines(fwriter.accepted)

\* ------------------------------------------------------------------ C36
\* The top-level task that t is, or descends from.
RECURSIVE TopLevelOf(_, _)
TopLevelOf(s, t) == IF s[t].parent = ROOT THEN t ELSE TopLevelOf(s, s[t].parent)

\* The calls of `trace` that returned Ok.
OkCalls(trace) == {trace[i] : i \in {j \in 1 .. Len(trace) : trace[j].ok}}

\* C36: a render, failing or not, clears ROOT's event buffer only when
\* render_event_line returned Ok for every event in it, and removes a task
\* only when it is, or descends from, a finished top-level task for which
\* render_task returned Ok in this very call; everything else is still in
\* the store afterwards.
C36_NothingLostOnError ==
    [][ last'.op = "Render" =>
          /\ tasks'[ROOT].events # tasks[ROOT].events =>
                /\ tasks'[ROOT].events = <<>>
                /\ \A i \in 1 .. Len(tasks[ROOT].events) :
                      Cb("render_event_line", i - 1, TRUE) \in OkCalls(last'.trace)
          /\ \A t \in DOMAIN tasks :
                t \notin DOMAIN tasks' =>
                   LET top == TopLevelOf(tasks, t)
                   IN  /\ tasks[top].completed \/ tasks[top].cancelled
                       /\ Cb("render_task", top, TRUE) \in OkCalls(last'.trace)
          /\ \A t \in (DOMAIN tasks) \cap (DOMAIN tasks') :
                t # ROOT => tasks'[t] = tasks[t] ]_vars

\* A render failed in the flush pass on the second of two finished tasks:
\* both are still in the store, the first having been rendered once.
C36_Witness ==
    /\ last.op = "Render" /\ last.result = "err"
    /\ Cb("render_task", 1, TRUE) \in OkCalls(last.trace)
    /\ last.trace[Len(last.trace)] = Cb("render_task", 2, FALSE)
    /\ {1, 2} \subseteq DOMAIN tasks

\* ------------------------------------------------------------------ C37
\* C37: while a task is present, its completed flag is raised only by the
\* TaskEnd that names it and its cancelled flag only by CancelAll, and no
\* step lowers either flag; a task that a TaskStart has just created has
\* both flags lowered, whatever CancelAll did before.
C37_FlagsMonotone ==
    [][ /\ \A t \in (DOMAIN tasks) \cap (DOMAIN tasks') :
              /\ tasks[t].completed => tasks'[t].completed
              /\ tasks[t].cancelled => tasks'[t].cancelled
              /\ (tasks'[t].completed /\ ~tasks[t].completed)
                    => last'.op = "TaskEnd" /\ last'.id = t
              /\ (tasks'[t].cancelled /\ ~tasks[t].cancelled)
                    => last'.op = "CancelAll"
        /\ \A t \in (DOMAIN tasks') \ (DOMAIN tasks) :
              /\ last'.op = "TaskStart" /\ last'.id = t
              /\ ~tasks'[t].completed /\ ~tasks'[t].cancelled ]_vars

\* Task 2 has just been started under task 1, which CancelAll had
\* cancelled and TaskEnd completed: task 2 is active.
C37_Witness ==
    /\ last.op = "TaskStart" /\ last.id = 2
    /\ {1, 2} \subseteq DOMAIN tasks
    /\ tasks[1].cancelled /\ tasks[1].completed
    /\ tasks[2].parent = 1
    /\ ~tasks[2].completed /\ ~tasks[2].cancelled

\* ------------------------------------------------------------------ C38
\* The identities of the tasks whose TaskStart the loop has applied.
StartedTasks ==
    {hist.applied[i].action.id :
        i \in {j \in 1 .. Len(hist.applied) : hist.applied[j].action.type = "TaskStart"}}

\* C38: with cancel_on_close, and a sink and a renderer that never fail,
\* when run, run_until or run_async has returned the store holds only ROOT,
\* ROOT's event buffer is empty and the erasable-line count is 0; every task
\* the loop applied was rendered once in a flush pass, and the terminal
\* shows the lines of the flush passes and nothing else.
C38_NothingLeftAfterClose ==
    (rloop.mode # "tick" /\ rloop.pc = "done" /\ rloop.cancel_on_close) =>
       /\ DOMAIN tasks = {ROOT}
       /\ tasks[ROOT].events = <<>>
       /\ frame_lines = 0
       /\ \A t \in StartedTasks :
             Len(SelectSeq(perm, LAMBDA l : l = TaskLine(t))) = 1
       /\ screen = perm

\* run_until has returned on the stop signal after applying a task, its
\* child and the end of the child: three lines of flush passes remain.
C38_Witness ==
    /\ rloop.mode = "run_until" /\ rloop.pc = "done" /\ rloop.cancel_on_close
    /\ hist.left = "stop"
    /\ StartedTasks = {1, 2}
    /\ Len(hist.applied) = 3
    /\ hist.applied[3].action.type = "TaskEnd"

\* ------------------------------------------------------------------ C39
\* The calls of handle that are over, by a return or by a panic: made, and
\* no thread is still at work inside them.
FinishedCalls ==
    {n \in 1 .. hist.calls :
        \A t \in Threads :
           handler.thread[t].pc \in {"idle", "panicked"} \/ handler.thread[t].n # n}

\* How often the log has `op` for the call n.
Logged(op, n) == Len(SelectSeq(hist.log, LAMBDA e : e.op = op /\ e.n = n))

\* Updates and renders alternate in the log, each render belonging to the
\* update right before it: no thread's action or render comes between an
\* update and its render.
Exclusive ==
    \A i \in 1 .. Len(hist.log) :
       LET e == hist.log[i]
       IN  IF e.op = "update"
           THEN i < Len(hist.log) =>
                   hist.log[i + 1] = [thread |-> e.thread, op |-> "render", n |-> e.n]
           ELSE i > 1 /\ hist.log[i - 1] = [thread |-> e.thread, op |-> "update", n |-> e.n]

\* C39: for any interleaving of handle calls from several threads, every
\* action is applied and followed by exactly one render before any other
\* thread's action is applied; renders never interleave.
C39_InlineSerialised ==
    /\ Exclusive
    /\ \A n \in FinishedCalls : Logged("update", n) = 1 /\ Logged("render", n) = 1

\* ------------------------------------------------------------------ C40
\* C40: a sink failure during the render of one handle call does not unwind
\* into the thread that called handle, and every later call of handle still
\* applies its action and attempts a render.
C40_InlineSinkFailureIsolated ==
    /\ \A t \in Threads : handler.thread[t].pc # "panicked"
    /\ \A n \in FinishedCalls :
          (\E m \in 1 .. n - 1 : Logged("render", m) = 1)
             => Logged("update", n) = 1 /\ Logged("render", n) = 1

====
